---- MODULE Spec2Model ----
(***************************************************************************)
(* Forge inventory subgraph: the event-indexing engine.                    *)
(*                                                                         *)
(*   Spec      the graph-node mapping handlers of src/src/mapping.ts       *)
(*             applied, one event at a time, to an initially empty store.  *)
(*   SpecFetch getEventsWithRetryInChunks of the dev server                *)
(*             (src/unnamed/part_002): chunked range queries with retry    *)
(*             and provider rotation.                                      *)
(*   SpecPass  the merge, sort and apply loop of fetchRealData of the dev  *)
(*             server (src/unnamed/part_002).                              *)
(***************************************************************************)
EXTENDS Integers, Sequences, FiniteSets, TLC

\* ------------------------------------------------------------------------
\* Bounds of the model
\* ------------------------------------------------------------------------
\* number of events delivered to the mapping handlers
MaxEvents == 3

\* ------------------------------------------------------------------------
\* Values
\* ------------------------------------------------------------------------
ZERO_ADDRESS == "0x0000000000000000000000000000000000000000"
MINTER_ROLE == "0x9f2df0fed2c77648de5860a4cc508cd0818c85b8b8a1ab4ceeef8d981c8956a6"
DEFAULT_ADMIN_ROLE == "0x0000000000000000000000000000000000000000"
\* the bytes32 zero value that RoleGranted/RoleRevoked carry for the admin role
ZERO_BYTES32 == "0x0000000000000000000000000000000000000000000000000000000000000000"

\* an unset (null) nullable string field of an entity
NullStr == "<null>"
\* a key that a parsed JSON object does not have
Absent == "<absent>"

Addresses == {ZERO_ADDRESS, "0xa", "0xb"}
Accounts == Addresses \ {ZERO_ADDRESS}
TokenIds == {1, 2}
Amounts == {0, 1}
Roles == {MINTER_ROLE, ZERO_BYTES32, "0xdead"}
Categories == {"weapon"}

\* The chain: the n-th log of the contract lies in block BlockOf(n), two logs
\* to a block, and block 1 is the last block of a UTC day.
BlockOf(n) == (n + 1) \div 2
BlockTime(b) == 86398 + b

\* ------------------------------------------------------------------------
\* Finite maps (entity collections: string id -> record)
\* ------------------------------------------------------------------------
EmptyMap == [x \in {} |-> 0]
Put(f, k, v) == [x \in (DOMAIN f) \cup {k} |-> IF x = k THEN v ELSE f[x]]
Remove(f, k) == [x \in (DOMAIN f) \ {k} |-> f[x]]
Has(f, k) == k \in DOMAIN f

VARIABLES
    store,      \* mapping.ts: the graph-node entity store
    before,     \* mapping.ts: the store as the latest event found it
    applied,    \* mapping.ts: number of events delivered so far
    lastEvent,  \* mapping.ts: the latest delivered event
    fromBlock,            \* part_002 fetchRealData: first block searched
    currentBlock,         \* part_002 fetchRealData: chain head when the pass began
    currentFromBlock,     \* part_002 getEventsWithRetryInChunks: range cursor
    retries,              \* part_002 getEventsWithRetryInChunks: failed attempts
    currentProviderIndex, \* part_002: index of the active RPC provider
    fetched,              \* part_002 getEventsWithRetryInChunks: its allEvents
    queries,              \* the queryFilter calls issued so far, in order
    pcFetch,              \* "idle", "query" (before a queryFilter call) or "done"
    eventResults, \* part_002 fetchRealData: the fetched list of every event kind
    ordered,      \* part_002 fetchRealData: its allEvents, merged and sorted
    idx,          \* part_002 fetchRealData: the loop index i (0-based)
    realData,     \* part_002: the collections the resolvers read
    missing,      \* the logs whose block or transaction lookup answers nothing
    raising,      \* the logs whose block or transaction lookup raises an error
    pcPass,       \* "idle", "merge", "process", "stats" or "done"
    passes,       \* part_002 startServer: the started fetchRealData calls
    timer,        \* part_002 startServer: TRUE once setInterval is installed
    lastQuery,    \* part_002 root: the latest resolver call, realData before it
    metaCall      \* mapping.ts: one call of fetchAndParseMetadata and its result


mapVars == <<store, before, applied, lastEvent>>
fetchVars == <<fromBlock, currentBlock, currentFromBlock, retries,
               currentProviderIndex, fetched, queries, pcFetch>>
passVars == <<eventResults, ordered, idx, realData, missing, raising, pcPass>>
serverVars == <<passes, timer, lastQuery>>
metaVars == <<metaCall>>
vars == <<mapVars, fetchVars, passVars, serverVars, metaVars>>

\* the store before any event: every collection empty
EmptyStore ==
    [tokens |-> EmptyMap, tokenCreations |-> EmptyMap, tokenMints |-> EmptyMap,
     users |-> EmptyMap, userTokenBalances |-> EmptyMap,
     userInventoryItems |-> EmptyMap, roleChanges |-> EmptyMap,
     globalStats |-> EmptyMap, dailyStats |-> EmptyMap,
     tokenMetadata |-> EmptyMap, tokenProperties |-> EmptyMap,
     tokenAttributes |-> EmptyMap, allEvents |-> EmptyMap]

\* ------------------------------------------------------------------------
\* Aggregates (mapping.ts updateGlobalStats, updateDailyStats)
\* ------------------------------------------------------------------------
updateGlobalStats(s, timestamp, incrementTokens, incrementMints, incrementUsers) ==
    LET g == IF Has(s.globalStats, "1") THEN s.globalStats["1"]
             ELSE [totalTokens |-> 0, totalMints |-> 0, totalUsers |-> 0,
                   totalSupply |-> 0, totalEvents |-> 0, lastUpdated |-> 0]
        g2 == [g EXCEPT
                 !.totalTokens = IF incrementTokens THEN @ + 1 ELSE @,
                 !.totalMints = IF incrementMints THEN @ + 1 ELSE @,
                 !.totalUsers = IF incrementUsers THEN @ + 1 ELSE @,
                 !.totalEvents = @ + 1,
                 !.lastUpdated = timestamp]
    IN [s EXCEPT !.globalStats = Put(@, "1", g2)]

updateDailyStats(s, timestamp, incrementTokens, incrementMints) ==
    LET date == ToString(timestamp \div 86400)
        d == IF Has(s.dailyStats, date) THEN s.dailyStats[date]
             ELSE [date |-> timestamp \div 86400, tokensCreated |-> 0,
                   tokensMinted |-> 0, activeUsers |-> 0, totalSupplyChange |-> 0]
        d2 == [d EXCEPT
                 !.tokensCreated = IF incrementTokens THEN @ + 1 ELSE @,
                 !.tokensMinted = IF incrementMints THEN @ + 1 ELSE @,
                 !.activeUsers = @ + 1]
    IN [s EXCEPT !.dailyStats = Put(@, date, d2)]

\* ------------------------------------------------------------------------
\* Users and balances (mapping.ts getOrCreateUser, updateUserBalance)
\* ------------------------------------------------------------------------
\* a variant that creates the User without counting it
getOrCreateUserUncounted(s, address) ==
    IF Has(s.users, address) THEN s
    ELSE [s EXCEPT !.users =
            Put(@, address,
                [address |-> address, totalTokensCreated |-> 0,
                 totalTokensMinted |-> 0, firstInteraction |-> 0,
                 lastInteraction |-> 0, totalInventoryValue |-> 0])]

getOrCreateUser(s, address) ==
    IF Has(s.users, address)
    THEN \* firstInteraction is rewritten with 0 when it is 0; the save changes nothing
         s
    ELSE LET s1 == updateGlobalStats(s, 0, FALSE, FALSE, TRUE)
             user == [address |-> address, totalTokensCreated |-> 0,
                      totalTokensMinted |-> 0, firstInteraction |-> 0,
                      lastInteraction |-> 0, totalInventoryValue |-> 0]
         IN [s1 EXCEPT !.users = Put(@, address, user)]

BalanceId(address, tokenId) == address \o "-" \o ToString(tokenId)

\* the balance updateUserBalance starts from: the stored one, or 0 for no record
LoadedBalance(s, address, tokenId) ==
    IF Has(s.userTokenBalances, BalanceId(address, tokenId))
    THEN s.userTokenBalances[BalanceId(address, tokenId)].balance
    ELSE 0

\* a variant that saves the record whatever the result is
StoreBalanceKeepZero(balances, balanceId, balance) ==
    Put(balances, balanceId, balance)

\* mapping.ts 546-550: a result of zero removes the record, any other is saved
StoreBalance(balances, balanceId, balance) ==
    IF balance.balance = 0 THEN Remove(balances, balanceId)
    ELSE Put(balances, balanceId, balance)

\* a variant that leaves totalInventoryValue as it was
InventoryValueKept(value, amount) == value

\* mapping.ts 553
InventoryValueAfter(value, amount) == value + amount

\* a variant that stores the amount instead of adding it to the loaded balance
updateUserBalanceOverwrite(s, address, tokenId, amount, timestamp) ==
    LET balanceId == BalanceId(address, tokenId)
        balance == [user |-> address, token |-> ToString(tokenId),
                    balance |-> amount, lastUpdated |-> timestamp]
        s1 == [s EXCEPT !.userTokenBalances = StoreBalance(@, balanceId, balance)]
        s2 == getOrCreateUser(s1, address)
        user == [s2.users[address] EXCEPT
                   !.totalInventoryValue = InventoryValueAfter(@, amount),
                   !.lastInteraction = timestamp]
    IN [s2 EXCEPT !.users = Put(@, address, user)]

updateUserBalance(s, address, tokenId, amount, timestamp) ==
    LET balanceId == BalanceId(address, tokenId)
        balance == [user |-> address, token |-> ToString(tokenId),
                    balance |-> LoadedBalance(s, address, tokenId) + amount,
                    lastUpdated |-> timestamp]
        s1 == [s EXCEPT !.userTokenBalances = StoreBalance(@, balanceId, balance)]
        s2 == getOrCreateUser(s1, address)
        user == [s2.users[address] EXCEPT
                   !.totalInventoryValue = InventoryValueAfter(@, amount),
                   !.lastInteraction = timestamp]
    IN [s2 EXCEPT !.users = Put(@, address, user)]

\* a variant that answers the hash itself for a role it does not know
getRoleNameHash(role) ==
    IF role = MINTER_ROLE THEN "MINTER"
    ELSE IF role = DEFAULT_ADMIN_ROLE THEN "DEFAULT_ADMIN"
    ELSE role

getRoleName(role) ==
    IF role = MINTER_ROLE THEN "MINTER"
    ELSE IF role = DEFAULT_ADMIN_ROLE THEN "DEFAULT_ADMIN"
    ELSE "UNKNOWN"

\* ------------------------------------------------------------------------
\* Metadata resolver (mapping.ts fetchAndParseMetadata)
\* ------------------------------------------------------------------------
\* A token URI is null (try_uri reverted), an http URI, an ipfs URI or another
\* string.  A retrieval answers "unreachable" (no response / no bytes),
\* "status" (an HTTP status other than 200), "notjson" (bytes that are not
\* JSON), "nonobject" (a JSON value that is not an object) or "object" (a JSON
\* object, whose keys are in payload; a key it lacks is Absent, a key whose
\* value is not a JSON string is NonString).  An element of attributes is a
\* JSON object (kind "object") or another JSON value (kind "scalar").
HttpURI == "http://meta/1"
IpfsURI == "ipfs://QmHash/1.json"
OtherURI == "ar://1"
startsWithHttp(uri) == uri = HttpURI
startsWithIpfs(uri) == uri = IpfsURI

NonString == "<non-string>"

\* mapping.ts 38: !tokenURI holds of null and of the empty string
IsFalsy(uri) == uri \in {NullStr, ""}

NoPayload ==
    [name |-> Absent, description |-> Absent, image |-> Absent,
     rewardId |-> Absent, forge_id |-> Absent, attributes |-> <<>>]
FullPayload ==
    [name |-> "Sword", description |-> "A sword", image |-> "ipfs://img",
     rewardId |-> "r-7", forge_id |-> "f-9",
     attributes |-> <<[kind |-> "object", trait_type |-> "rarity", value |-> "rare"],
                      [kind |-> "object", trait_type |-> Absent, value |-> "x"]>>]
Unreachable == [kind |-> "unreachable", payload |-> NoPayload]
ObjectResponse(p) == [kind |-> "object", payload |-> p]

\* the response carries a JSON object: response && status == 200 && isOk
Parsed(r) == r.kind = "object"

\* response && status == 200 && isOk: the bytes are some JSON value
IsOk(r) == r.kind \in {"object", "nonobject"}

\* JSONValue.toString of a present key: the runtime aborts the handler when
\* the value is not a JSON string
ToStringAborts(v) == v = NonString

\* mapping.ts 68-71: toObject of an element, toString of its two keys
ElementAborts(a) ==
    \/ a.kind # "object"
    \/ /\ a.trait_type # Absent /\ a.value # Absent
       /\ ToStringAborts(a.trait_type) \/ ToStringAborts(a.value)

\* mapping.ts 50-78 / 98-126: JSONValue.toObject of the parsed value aborts
\* the handler when the value is not an object (no kind is tested before it,
\* unlike toArray at line 63), and so do the conversions inside
FirstParseAborts(r) ==
    /\ IsOk(r)
    /\ \/ r.kind # "object"
       \/ ToStringAborts(r.payload.name)
       \/ ToStringAborts(r.payload.description)
       \/ ToStringAborts(r.payload.image)
       \/ ToStringAborts(r.payload.rewardId)
       \/ \E i \in DOMAIN r.payload.attributes :
            ElementAborts(r.payload.attributes[i])

\* mapping.ts 149-155 / 163-169
SecondParseAborts(r) ==
    /\ IsOk(r)
    /\ r.kind # "object" \/ ToStringAborts(r.payload.forge_id)

\* a variant whose default name is empty
DefaultMetadataBlankName(tokenId) ==
    [token |-> tokenId, name |-> "",
     description |-> "Description for token " \o tokenId,
     image |-> "", rewardId |-> "", properties |-> NullStr]

\* mapping.ts 30-36
DefaultMetadata(tokenId) ==
    [token |-> tokenId, name |-> "Token " \o tokenId,
     description |-> "Description for token " \o tokenId,
     image |-> "", rewardId |-> "", properties |-> NullStr]

\* mapping.ts 51-60 / 99-108: a present key replaces the default
ApplyPayload(metadata, p) ==
    [metadata EXCEPT
       !.name = IF p.name # Absent THEN p.name ELSE @,
       !.description = IF p.description # Absent THEN p.description ELSE @,
       !.image = IF p.image # Absent THEN p.image ELSE @,
       !.rewardId = IF p.rewardId # Absent THEN p.rewardId ELSE @]

\* mapping.ts 62-78 / 110-126: one TokenAttribute per element that has both keys
RECURSIVE SaveAttributes(_, _, _, _)
SaveAttributes(attrs, tokenId, attrArray, i) ==
    IF i > Len(attrArray) THEN attrs
    ELSE LET a == attrArray[i]
             attrId == tokenId \o "-attr-" \o ToString(i - 1)
             next == IF a.trait_type # Absent /\ a.value # Absent
                     THEN Put(attrs, attrId, [metadata |-> tokenId,
                                              traitType |-> a.trait_type,
                                              value |-> a.value])
                     ELSE attrs
         IN SaveAttributes(next, tokenId, attrArray, i + 1)

\* r1 answers the retrieval of lines 46/93, r2 the second one of lines 147/161.
\* The result is the store, the returned metadata and whether the runtime
\* aborted the handler inside the call (the store is then as it was).
fetchAndParseMetadata(s, tokenId, tokenURI, r1, r2) ==
    LET m0 == DefaultMetadata(tokenId)
        fetches == startsWithHttp(tokenURI) \/ startsWithIpfs(tokenURI)
        aborts == fetches /\ (FirstParseAborts(r1) \/ SecondParseAborts(r2))
        m1 == IF fetches /\ Parsed(r1) THEN ApplyPayload(m0, r1.payload) ELSE m0
        attrs == IF fetches /\ Parsed(r1)
                 THEN SaveAttributes(s.tokenAttributes, tokenId, r1.payload.attributes, 1)
                 ELSE s.tokenAttributes
        hasForge == fetches /\ Parsed(r2) /\ r2.payload.forge_id # Absent
        properties == [metadata |-> tokenId, badgeType |-> "", createdBy |-> "",
                       rewardId |-> m1.rewardId,
                       forgeId |-> IF hasForge THEN r2.payload.forge_id ELSE ""]
        m2 == [m1 EXCEPT
                 !.rewardId = IF hasForge THEN r2.payload.forge_id ELSE @,
                 !.properties = tokenId]
    IN IF IsFalsy(tokenURI)
       THEN [s |-> [s EXCEPT !.tokenMetadata = Put(@, tokenId, m0)],
             metadata |-> m0, aborted |-> FALSE]
       ELSE IF aborts
       THEN [s |-> s, metadata |-> NullStr, aborted |-> TRUE]
       ELSE [s |-> [s EXCEPT !.tokenAttributes = attrs,
                             !.tokenProperties = Put(@, tokenId, properties),
                             !.tokenMetadata = Put(@, tokenId, m2)],
             metadata |-> m2, aborted |-> FALSE]

\* ------------------------------------------------------------------------
\* Event handlers (mapping.ts)
\* ------------------------------------------------------------------------
\* An event carries its kind, transactionHash, logIndex, blockNumber,
\* timestamp (of its block), txFrom (event.transaction.from) and the
\* parameters of its kind.  The journal rows keep these; gas price, value,
\* block hash and transaction index play no part in the handlers and are left
\* out.
EventId(ev) == ev.transactionHash \o "-" \o ToString(ev.logIndex)

JournalRow(ev, eventType, description) ==
    [eventType |-> eventType, blockNumber |-> ev.blockNumber,
     transactionHash |-> ev.transactionHash, logIndex |-> ev.logIndex,
     timestamp |-> ev.timestamp, from |-> ev.txFrom, description |-> description]

\* mapping.ts 188-228: the Token built for an id that has no Token yet
NewToken(s, ev) ==
    LET tokenIdString == ToString(ev.tokenId)
        res == fetchAndParseMetadata(s, tokenIdString, ev.uri, ev.r1, ev.r2)
        metadata == res.metadata
        s1 == [res.s EXCEPT !.tokenMetadata = Put(@, tokenIdString, metadata)]
        token == [tokenId |-> ev.tokenId, tokenType |-> ev.tokenType,
                  category |-> ev.category, subCategory |-> ev.subCategory,
                  soulbound |-> FALSE, maxSupply |-> 0, currentSupply |-> 0,
                  creator |-> ev.txFrom, createdAt |-> ev.timestamp,
                  createdAtBlock |-> ev.blockNumber,
                  createdTxHash |-> ev.transactionHash, tokenURI |-> ev.uri,
                  metadata |-> tokenIdString, name |-> metadata.name,
                  description |-> metadata.description, image |-> metadata.image,
                  rewardId |-> metadata.rewardId,
                  forgeId |-> IF metadata.properties # NullStr
                                 /\ Has(s1.tokenProperties, metadata.properties)
                              THEN s1.tokenProperties[metadata.properties].forgeId
                              ELSE NullStr]
    IN [s1 EXCEPT !.tokens = Put(@, tokenIdString, token)]

\* a variant that rebuilds the Token on every TokenCreated
LoadOrCreateTokenOverwrite(s, ev) == NewToken(s, ev)

\* mapping.ts 186-229: load the Token, build it only when there is none
LoadOrCreateToken(s, ev) ==
    IF Has(s.tokens, ToString(ev.tokenId)) THEN s ELSE NewToken(s, ev)

\* the handler is aborted inside fetchAndParseMetadata
CreationAborts(s, ev) ==
    /\ ~Has(s.tokens, ToString(ev.tokenId))
    /\ fetchAndParseMetadata(s, ToString(ev.tokenId), ev.uri, ev.r1, ev.r2).aborted

handleTokenCreated(s, ev) ==
    IF CreationAborts(s, ev) THEN s ELSE
    LET tokenIdString == ToString(ev.tokenId)
        s1 == LoadOrCreateToken(s, ev)
        s2 == getOrCreateUser(s1, ev.txFrom)
        creation == [token |-> tokenIdString, tokenId |-> ev.tokenId,
                     tokenType |-> ev.tokenType, category |-> ev.category,
                     subCategory |-> ev.subCategory, creator |-> ev.txFrom,
                     timestamp |-> ev.timestamp, blockNumber |-> ev.blockNumber,
                     transactionHash |-> ev.transactionHash]
        s3 == [s2 EXCEPT !.tokenCreations = Put(@, EventId(ev), creation)]
        s4 == [s3 EXCEPT !.allEvents =
                 Put(@, EventId(ev),
                     JournalRow(ev, "TokenCreated",
                                "Token created with ID: " \o tokenIdString))]
        s5 == getOrCreateUser(s4, ev.txFrom)
        user == [s5.users[ev.txFrom] EXCEPT
                   !.totalTokensCreated = @ + 1,
                   !.lastInteraction = ev.timestamp]
        s6 == [s5 EXCEPT !.users = Put(@, ev.txFrom, user)]
        s7 == updateGlobalStats(s6, ev.timestamp, TRUE, FALSE, FALSE)
    IN updateDailyStats(s7, ev.timestamp, TRUE, FALSE)

\* a variant that counts one unit per mint instead of the amount
MintSupplyByOne(s, tokenIdString, amount) ==
    IF Has(s.tokens, tokenIdString)
    THEN [s EXCEPT !.tokens[tokenIdString].currentSupply = @ + 1]
    ELSE s

\* mapping.ts 377-380: the supply grows only when the Token was loaded
MintSupply(s, tokenIdString, amount) ==
    IF Has(s.tokens, tokenIdString)
    THEN [s EXCEPT !.tokens[tokenIdString].currentSupply = @ + amount]
    ELSE s

\* a variant that stamps firstAcquired on every mint
InventoryItemReacquired(item0, amount, timestamp) ==
    [item0 EXCEPT !.balance = @ + amount, !.firstAcquired = timestamp,
                  !.lastUpdated = timestamp, !.lastAcquired = timestamp]

\* mapping.ts 398-401
InventoryItemAfter(item0, amount, timestamp) ==
    [item0 EXCEPT !.balance = @ + amount, !.lastUpdated = timestamp,
                  !.lastAcquired = timestamp]

handleTokenMint(s, to, tokenId, amount, operator, ev) ==
    LET tokenIdString == ToString(tokenId)
        mintId == EventId(ev) \o "-" \o tokenIdString
        s1 == getOrCreateUser(s, to)
        known == Has(s1.tokens, tokenIdString)
        tokenEntity == s1.tokens[tokenIdString]
        mint == [token |-> tokenIdString, to |-> to, amount |-> amount,
                 timestamp |-> ev.timestamp, blockNumber |-> ev.blockNumber,
                 transactionHash |-> ev.transactionHash, operator |-> operator,
                 tokenName |-> IF known THEN tokenEntity.name ELSE NullStr,
                 tokenDescription |-> IF known THEN tokenEntity.description ELSE NullStr,
                 tokenImage |-> IF known THEN tokenEntity.image ELSE NullStr,
                 tokenCategory |-> IF known THEN tokenEntity.category ELSE NullStr,
                 tokenSubCategory |-> IF known THEN tokenEntity.subCategory ELSE NullStr,
                 rewardId |-> IF known THEN tokenEntity.rewardId ELSE NullStr,
                 tokenForgeId |-> IF known THEN tokenEntity.forgeId ELSE NullStr]
        s2 == [s1 EXCEPT !.tokenMints = Put(@, mintId, mint)]
        s3 == MintSupply(s2, tokenIdString, amount)
        s4 == updateUserBalance(s3, to, tokenId, amount, ev.timestamp)
        inventoryId == to \o "-" \o tokenIdString
        s5 == IF Has(s4.userInventoryItems, inventoryId) THEN s4
              ELSE getOrCreateUser(s4, to)
        item0 == IF Has(s4.userInventoryItems, inventoryId)
                 THEN s4.userInventoryItems[inventoryId]
                 ELSE [user |-> to, token |-> tokenIdString, balance |-> 0,
                       firstAcquired |-> ev.timestamp,
                       lastUpdated |-> ev.timestamp, lastAcquired |-> ev.timestamp,
                       tokenType |-> IF known THEN tokenEntity.tokenType ELSE 0,
                       category |-> IF known THEN tokenEntity.category ELSE "",
                       subCategory |-> IF known THEN tokenEntity.subCategory ELSE "",
                       rewardId |-> IF known THEN tokenEntity.rewardId ELSE ""]
        item == InventoryItemAfter(item0, amount, ev.timestamp)
        s6 == [s5 EXCEPT !.userInventoryItems = Put(@, inventoryId, item)]
        s7 == getOrCreateUser(s6, to)
        user == [s7.users[to] EXCEPT
                   !.totalTokensMinted = @ + amount,
                   !.lastInteraction = ev.timestamp]
        s8 == [s7 EXCEPT !.users = Put(@, to, user)]
        s9 == updateGlobalStats(s8, ev.timestamp, FALSE, TRUE, FALSE)
        s10 == updateDailyStats(s9, ev.timestamp, FALSE, TRUE)
        row == (JournalRow(ev, "TokenMint", "Mint of token ID: " \o tokenIdString)
                  @@ [toAddress |-> to, amount |-> amount, operator |-> operator,
                      tokenId |-> tokenId])
    IN [s10 EXCEPT !.allEvents = Put(@, EventId(ev), row)]

\* mapping.ts 281: the source is the zero address
IsMint(from) == from = ZERO_ADDRESS

\* a variant that credits the destination without debiting the source
PlainTransferNoDebit(s, from, to, tokenId, amount, timestamp) ==
    updateUserBalance(updateUserBalance(s, from, tokenId, 0, timestamp),
                      to, tokenId, amount, timestamp)

\* mapping.ts 286-287 / 324-325: debit the source, then credit the destination
PlainTransfer(s, from, to, tokenId, amount, timestamp) ==
    updateUserBalance(updateUserBalance(s, from, tokenId, 0 - amount, timestamp),
                      to, tokenId, amount, timestamp)

handleTransferSingle(s, ev) ==
    IF IsMint(ev.from)
    THEN handleTokenMint(s, ev.to, ev.id, ev.value, ev.operator, ev)
    ELSE LET s2 == PlainTransfer(s, ev.from, ev.to, ev.id, ev.value, ev.timestamp)
             row == (JournalRow(ev, "TransferSingle",
                                "Single transfer of token ID: " \o ToString(ev.id))
                       @@ [fromAddress |-> ev.from, toAddress |-> ev.to,
                           amount |-> ev.value, operator |-> ev.operator,
                           tokenId |-> ev.id])
         IN [s2 EXCEPT !.allEvents = Put(@, EventId(ev), row)]

\* a variant of the loop that stops after the first element
TransferBatchLoopFirstOnly(s, ev, i) ==
    IF i > Len(ev.ids) \/ i > 1 THEN s
    ELSE IF IsMint(ev.from)
         THEN handleTokenMint(s, ev.to, ev.ids[i], ev.values[i], ev.operator, ev)
         ELSE PlainTransfer(s, ev.from, ev.to, ev.ids[i], ev.values[i], ev.timestamp)

\* mapping.ts 317-327: the loop over the parallel ids/values arrays
RECURSIVE TransferBatchLoop(_, _, _)
TransferBatchLoop(s, ev, i) ==
    IF i > Len(ev.ids) THEN s
    ELSE TransferBatchLoop(
           IF IsMint(ev.from)
           THEN handleTokenMint(s, ev.to, ev.ids[i], ev.values[i], ev.operator, ev)
           ELSE PlainTransfer(s, ev.from, ev.to, ev.ids[i], ev.values[i], ev.timestamp),
           ev, i + 1)

\* a variant that journals one row per element of the batch, keyed with the
\* token id, instead of one row for the event
RECURSIVE JournalPerElement(_, _, _)
JournalPerElement(s, ev, i) ==
    IF i > Len(ev.ids) THEN s
    ELSE JournalPerElement(
           [s EXCEPT !.allEvents =
              Put(@, EventId(ev) \o "-" \o ToString(ev.ids[i]),
                  JournalRow(ev, "TransferBatch", "Batch transfer of tokens"))],
           ev, i + 1)

handleTransferBatchPerElement(s, ev) ==
    JournalPerElement(TransferBatchLoop(s, ev, 1), ev, 1)

handleTransferBatch(s, ev) ==
    LET s2 == TransferBatchLoop(s, ev, 1)
        row == (JournalRow(ev, "TransferBatch", "Batch transfer of tokens")
                  @@ [fromAddress |-> ev.from, toAddress |-> ev.to,
                      amounts |-> ev.values, tokenIds |-> ev.ids,
                      operator |-> ev.operator])
    IN [s2 EXCEPT !.allEvents = Put(@, EventId(ev), row)]

\* mapping.ts 431-467 (granted = TRUE) and 469-505 (granted = FALSE)
RoleChanged(s, ev, granted) ==
    LET s1 == getOrCreateUser(s, ev.account)
        roleChange == [role |-> ev.role, roleName |-> getRoleName(ev.role),
                       account |-> ev.account, sender |-> ev.sender,
                       granted |-> granted, timestamp |-> ev.timestamp,
                       blockNumber |-> ev.blockNumber,
                       transactionHash |-> ev.transactionHash]
        s2 == [s1 EXCEPT !.roleChanges = Put(@, EventId(ev), roleChange)]
        s3 == getOrCreateUser(s2, ev.account)
        user == [s3.users[ev.account] EXCEPT !.lastInteraction = ev.timestamp]
        s4 == [s3 EXCEPT !.users = Put(@, ev.account, user)]
        row == (JournalRow(ev, IF granted THEN "RoleGranted" ELSE "RoleRevoked",
                           (IF granted THEN "Role granted: " ELSE "Role revoked: ")
                             \o getRoleName(ev.role))
                  @@ [role |-> ev.role, roleHash |-> ev.role,
                      account |-> ev.account, sender |-> ev.sender])
    IN [s4 EXCEPT !.allEvents = Put(@, EventId(ev), row)]

handleRoleGranted(s, ev) == RoleChanged(s, ev, TRUE)
handleRoleRevoked(s, ev) == RoleChanged(s, ev, FALSE)

\* ------------------------------------------------------------------------
\* Spec: graph-node delivers the contract's events to the handlers, one at a
\* time, in log order; every log has its own (transactionHash, logIndex).
\* ------------------------------------------------------------------------
\* The events delivered.  A TokenCreated comes from one of two creators: the
\* token of the first has no URI, the URI of the second resolves to a JSON
\* object.  TransferSingle events move token 1 between any two addresses that
\* are not both the zero address; token 2 moves in TransferBatch events.
CreationCases ==
    {[creator |-> "0xa", uri |-> NullStr, r1 |-> Unreachable, r2 |-> Unreachable],
     [creator |-> "0xb", uri |-> HttpURI, r1 |-> ObjectResponse(FullPayload),
      r2 |-> ObjectResponse(FullPayload)]}

SingleRoutes ==
    {r \in Addresses \X Addresses : r[1] # ZERO_ADDRESS \/ r[2] # ZERO_ADDRESS}
SingleIds == {1}

BatchRoutes == {<<ZERO_ADDRESS, "0xa">>, <<"0xa", "0xb">>}
Batches ==
    {[ids |-> <<>>, values |-> <<>>],
     [ids |-> <<1, 2>>, values |-> <<2, 1>>],
     [ids |-> <<1, 1>>, values |-> <<1, 1>>]}

Operators == {"0xa"}
RoleAccounts == {"0xb"}

BaseEvent(kind, txFrom) ==
    [kind |-> kind, transactionHash |-> "0x" \o ToString(applied + 1),
     logIndex |-> applied, blockNumber |-> BlockOf(applied + 1),
     timestamp |-> BlockTime(BlockOf(applied + 1)), txFrom |-> txFrom]

Delivered(ev, s) ==
    /\ store' = s
    /\ before' = store
    /\ applied' = applied + 1
    /\ lastEvent' = ev
    /\ UNCHANGED <<fetchVars, passVars, serverVars, metaVars>>

CanDeliver == applied < MaxEvents

\* no call of fetchAndParseMetadata is being examined
NoMetaCall == [pc |-> "none"]

InitMapping ==
    /\ metaCall = NoMetaCall
    /\ store = EmptyStore
    /\ before = EmptyStore
    /\ applied = 0
    /\ lastEvent = [kind |-> "none"]

\* no backfill is running
FetchIdle ==
    /\ fromBlock = 0
    /\ currentBlock = 0
    /\ currentFromBlock = 0
    /\ retries = 0
    /\ currentProviderIndex = 0
    /\ fetched = <<>>
    /\ queries = <<>>
    /\ pcFetch = "idle"

\* part_002 23-41: realData as the server starts, and as a pass clears it
EmptyRealData ==
    [tokens |-> <<>>, tokenCreations |-> <<>>, tokenMints |-> <<>>,
     users |-> <<>>, userTokenBalances |-> <<>>, roleChanges |-> <<>>,
     allEvents |-> <<>>,
     globalStats |-> [id |-> "global", totalTokens |-> 0, totalMints |-> 0,
                      totalUsers |-> 0, totalSupply |-> 0, totalEvents |-> 0,
                      lastUpdated |-> "0"],
     dailyStats |-> <<>>]

\* the number of fetchRealData calls a behaviour starts
MaxPasses == 3

\* a fetchRealData call that has not begun
IdlePass == [pc |-> "idle", i |-> 0, code |-> "", queried |-> FALSE, outcome |-> "none"]

NoQuery == [name |-> "none"]

\* the server has not started
ServerIdle ==
    /\ passes = [p \in 1..MaxPasses |-> IdlePass]
    /\ timer = FALSE
    /\ lastQuery = NoQuery

\* no pass of the dev server is running
PassIdle ==
    /\ ServerIdle
    /\ eventResults = <<>>
    /\ ordered = <<>>
    /\ idx = 0
    /\ realData = EmptyRealData
    /\ missing = {}
    /\ raising = {}
    /\ pcPass = "idle"

Init == InitMapping /\ FetchIdle /\ PassIdle

DeliverTokenCreated ==
    \E tokenId \in TokenIds, cc \in CreationCases, category \in Categories :
        /\ CanDeliver
        /\ LET ev == BaseEvent("TokenCreated", cc.creator)
                       @@ [tokenId |-> tokenId, tokenType |-> 1,
                           category |-> category, subCategory |-> "sub",
                           uri |-> cc.uri, r1 |-> cc.r1, r2 |-> cc.r2]
           IN Delivered(ev, handleTokenCreated(store, ev))

DeliverTransferSingle ==
    \E route \in SingleRoutes, id \in SingleIds, value \in Amounts,
       operator \in Operators :
        /\ CanDeliver
        /\ LET ev == BaseEvent("TransferSingle", operator)
                       @@ [operator |-> operator, from |-> route[1],
                           to |-> route[2], id |-> id, value |-> value]
           IN Delivered(ev, handleTransferSingle(store, ev))

DeliverTransferBatch ==
    \E route \in BatchRoutes, batch \in Batches, operator \in Operators :
        /\ CanDeliver
        /\ LET ev == BaseEvent("TransferBatch", operator)
                       @@ [operator |-> operator, from |-> route[1],
                           to |-> route[2], ids |-> batch.ids,
                           values |-> batch.values]
           IN Delivered(ev, handleTransferBatch(store, ev))

DeliverRoleGranted ==
    \E role \in Roles, account \in RoleAccounts, sender \in Operators :
        /\ CanDeliver
        /\ LET ev == BaseEvent("RoleGranted", sender)
                       @@ [role |-> role, account |-> account, sender |-> sender]
           IN Delivered(ev, handleRoleGranted(store, ev))

DeliverRoleRevoked ==
    \E role \in Roles, account \in RoleAccounts, sender \in Operators :
        /\ CanDeliver
        /\ LET ev == BaseEvent("RoleRevoked", sender)
                       @@ [role |-> role, account |-> account, sender |-> sender]
           IN Delivered(ev, handleRoleRevoked(store, ev))

Next ==
    \/ DeliverTokenCreated
    \/ DeliverTransferSingle
    \/ DeliverTransferBatch
    \/ DeliverRoleGranted
    \/ DeliverRoleRevoked

Spec == Init /\ [][Next]_vars

\* ------------------------------------------------------------------------
\* Properties of the mapping handlers (checked under Spec)
\* ------------------------------------------------------------------------
RECURSIVE SumOfBalances(_, _)
SumOfBalances(balances, ids) ==
    IF ids = {} THEN 0
    ELSE LET id == CHOOSE x \in ids : TRUE
         IN balances[id].balance + SumOfBalances(balances, ids \ {id})

\* the sum of UserTokenBalance.balance over the records of one token
TokenBalanceTotal(s, tokenIdString) ==
    SumOfBalances(s.userTokenBalances,
                  {id \in DOMAIN s.userTokenBalances :
                     s.userTokenBalances[id].token = tokenIdString})

\* lastEvent took the store from before to store
IsSingleMint(ev) == ev.kind = "TransferSingle" /\ IsMint(ev.from)
IsPlainSingle(ev) == ev.kind = "TransferSingle" /\ ~IsMint(ev.from)

\* C1: for every token that has a Token record, the balances of all users for
\* it add up to Token.currentSupply, after every prefix of the event sequence.
C1_BalanceConservation ==
    \A t \in DOMAIN store.tokens :
        TokenBalanceTotal(store, t) = store.tokens[t].currentSupply

NoZeroBalance(s) ==
    \A id \in DOMAIN s.userTokenBalances : s.userTokenBalances[id].balance # 0

\* what a transfer of value from -> to adds to the balance of address a
Delta(from, to, value, a) ==
    (IF a = to THEN value ELSE 0)
      - (IF a = from /\ ~IsMint(from) THEN value ELSE 0)

\* what one TransferBatch adds to the balance of address a for token t
RECURSIVE BatchDelta(_, _, _, _)
BatchDelta(ev, a, t, i) ==
    IF i > Len(ev.ids) THEN 0
    ELSE (IF ev.ids[i] = t THEN Delta(ev.from, ev.to, ev.values[i], a) ELSE 0)
           + BatchDelta(ev, a, t, i + 1)

\* what the transfer event ev adds to the balance of address a for token t
TransferDelta(ev, a, t) ==
    IF ev.kind = "TransferSingle"
    THEN (IF ev.id = t THEN Delta(ev.from, ev.to, ev.value, a) ELSE 0)
    ELSE BatchDelta(ev, a, t, 1)

\* C2: no UserTokenBalance record with balance zero is ever stored; an update
\* whose result is zero removes the record and one whose result is not zero
\* stores it (zero amounts, self-transfers and whole holdings included).
C2_ZeroBalance ==
    /\ NoZeroBalance(store)
    /\ lastEvent.kind \in {"TransferSingle", "TransferBatch"} =>
         \A a \in Addresses, t \in TokenIds :
           LET result == LoadedBalance(before, a, t) + TransferDelta(lastEvent, a, t)
               id == BalanceId(a, t)
           IN /\ Has(store.userTokenBalances, id) <=> result # 0
              /\ result # 0 => store.userTokenBalances[id].balance = result

\* a user who was minted tokens has transferred the whole holding away
C2_Witness ==
    /\ IsPlainSingle(lastEvent)
    /\ lastEvent.from # lastEvent.to
    /\ lastEvent.value >= 1
    /\ Has(before.users, lastEvent.from)
    /\ before.users[lastEvent.from].totalTokensMinted >= 1
    /\ LoadedBalance(before, lastEvent.from, lastEvent.id) = lastEvent.value
    /\ ~Has(store.userTokenBalances, BalanceId(lastEvent.from, lastEvent.id))
    /\ LoadedBalance(store, lastEvent.to, lastEvent.id) = lastEvent.value

\* C3: a TokenCreated for a token id that already has a Token leaves every
\* field of that Token and its TokenMetadata unchanged.
C3_IdempotentCreation ==
    (lastEvent.kind = "TokenCreated"
       /\ Has(before.tokens, ToString(lastEvent.tokenId)))
    => /\ store.tokens = before.tokens
       /\ store.tokenMetadata = before.tokenMetadata

\* a second TokenCreated, from another creator and with another metadata
\* answer, arrived for a token that has supply
C3_Witness ==
    /\ lastEvent.kind = "TokenCreated"
    /\ Has(before.tokens, ToString(lastEvent.tokenId))
    /\ LET token == store.tokens[ToString(lastEvent.tokenId)]
       IN /\ token.createdTxHash # lastEvent.transactionHash
          /\ token.creator # lastEvent.txFrom
          /\ token.tokenURI # lastEvent.uri
          /\ token.currentSupply >= 1

TotalMints(s) == IF Has(s.globalStats, "1") THEN s.globalStats["1"].totalMints ELSE 0

\* C7: a TransferSingle from the zero address of amount n of a token that has
\* a Token record, to u: currentSupply grows by n, the balance of u grows by
\* n, the TokenMint of the event and token exists and totalMints grows by 1.
C7_SingleMint ==
    (IsSingleMint(lastEvent) /\ Has(before.tokens, ToString(lastEvent.id)))
    => LET ev == lastEvent
           t == ToString(ev.id)
       IN /\ store.tokens[t].currentSupply
               = before.tokens[t].currentSupply + ev.value
          /\ LoadedBalance(store, ev.to, ev.id)
               = LoadedBalance(before, ev.to, ev.id) + ev.value
          /\ Has(store.tokenMints, EventId(ev) \o "-" \o t)
          /\ store.tokenMints[EventId(ev) \o "-" \o t].token = t
          /\ TotalMints(store) = TotalMints(before) + 1

\* a mint of a token that has a Token record, supply and a holder already
C7_Witness ==
    /\ IsSingleMint(lastEvent)
    /\ lastEvent.value >= 1
    /\ Has(before.tokens, ToString(lastEvent.id))
    /\ before.tokens[ToString(lastEvent.id)].currentSupply >= 1
    /\ LoadedBalance(before, lastEvent.to, lastEvent.id) >= 1
    /\ LoadedBalance(store, lastEvent.to, lastEvent.id) >= 2
    /\ TotalMints(store) >= 2

\* C8: a plain TransferSingle of n of token t from A to a different B: the
\* balance of A falls by n, the balance of B grows by n (no record counting
\* as 0) and no Token.currentSupply changes.
C8_PlainTransfer ==
    (IsPlainSingle(lastEvent) /\ lastEvent.from # lastEvent.to)
    => LET ev == lastEvent
       IN /\ LoadedBalance(store, ev.from, ev.id)
               = LoadedBalance(before, ev.from, ev.id) - ev.value
          /\ LoadedBalance(store, ev.to, ev.id)
               = LoadedBalance(before, ev.to, ev.id) + ev.value
          /\ store.tokens = before.tokens

\* a part of a holding was transferred: both users hold some of the token,
\* whose supply is what was minted
C8_Witness ==
    /\ IsPlainSingle(lastEvent)
    /\ lastEvent.from # lastEvent.to
    /\ lastEvent.value >= 1
    /\ LoadedBalance(before, lastEvent.from, lastEvent.id) > lastEvent.value
    /\ LoadedBalance(store, lastEvent.from, lastEvent.id) >= 1
    /\ LoadedBalance(store, lastEvent.to, lastEvent.id) = lastEvent.value
    /\ Has(store.tokens, ToString(lastEvent.id))
    /\ store.tokens[ToString(lastEvent.id)].currentSupply
         = LoadedBalance(before, lastEvent.from, lastEvent.id)

\* ------------------------------------------------------------------------
\* SpecFetch: getEventsWithRetryInChunks (dev server, part_002 118-157), run
\* for one event filter.  Blocks are counted from 0 and maxBlockRange, 45000
\* in the program, is scaled down so that a range takes several chunks.  The
\* chain head lies past the start block, as it does for the deployed contract.
\* ------------------------------------------------------------------------
\* highest chain head of the model
MaxBlock == 7
\* part_002 95: 45000 in the program
maxBlockRange == 2
\* part_002 114
maxRetries == 3
\* part_002 44-48: rpcProviders.length
NumProviders == 3

Min(a, b) == IF a < b THEN a ELSE b

\* the filter's logs of the chain: one in every block
LogAt(b) == [blockNumber |-> b, logIndex |-> 0]
RECURSIVE LogsIn(_, _)
LogsIn(from, to) == IF from > to THEN <<>> ELSE <<LogAt(from)>> \o LogsIn(from + 1, to)

\* part_002 123
currentToBlock == Min(currentFromBlock + maxBlockRange, currentBlock)

\* a variant that keeps the provider that has just failed
switchProviderStay(index) == index

\* part_002 55-60: the index of the provider that switchProvider activates
switchProvider(index) == (index + 1) % NumProviders

\* part_002 122: the test of the chunk loop
ChunkLoopRuns(from) == from < currentBlock

\* a variant in which the failure of a chunk ends the whole backfill
GiveUpStop(from) == FALSE

\* part_002 142-145: after the last failed attempt only the retry loop is
\* left (break); the chunk loop goes on with its test
GiveUpResume(from) == ChunkLoopRuns(from)

\* part_002 149-153: the chunk is over; append its events, advance the cursor
ChunkDone(chunkEvents, resumes) ==
    /\ fetched' = fetched \o chunkEvents
    /\ currentFromBlock' = currentToBlock + 1
    /\ retries' = 0
    /\ pcFetch' = IF resumes THEN "query" ELSE "done"

Issue(ok) ==
    queries' = Append(queries, [from |-> currentFromBlock, to |-> currentToBlock,
                                provider |-> currentProviderIndex, ok |-> ok])

InitFetch ==
    /\ InitMapping
    /\ PassIdle
    /\ fromBlock \in 0..MaxBlock
    /\ currentBlock \in (fromBlock + 1)..MaxBlock
    /\ currentFromBlock = fromBlock
    /\ retries = 0
    /\ currentProviderIndex \in 0..(NumProviders - 1)
    /\ fetched = <<>>
    /\ queries = <<>>
    /\ pcFetch = IF ChunkLoopRuns(fromBlock) THEN "query" ELSE "done"

\* part_002 131-133, 149-153: the query answers
QuerySucceeds ==
    /\ pcFetch = "query"
    /\ Issue(TRUE)
    /\ ChunkDone(LogsIn(currentFromBlock, currentToBlock),
                 ChunkLoopRuns(currentToBlock + 1))
    /\ UNCHANGED <<fromBlock, currentBlock, currentProviderIndex>>
    /\ UNCHANGED <<mapVars, passVars, serverVars, metaVars>>

\* a variant that always finds an attempt left
AttemptsLeftAlways(failed) == TRUE

\* part_002 138: after the failure counted in retries++, is an attempt left
AttemptsLeft(failed) == failed < maxRetries

\* part_002 134-141: the query throws and attempts are left
QueryFailsRetry ==
    /\ pcFetch = "query"
    /\ AttemptsLeft(retries + 1)
    /\ Issue(FALSE)
    /\ retries' = retries + 1
    /\ currentProviderIndex' = switchProvider(currentProviderIndex)
    /\ UNCHANGED <<fromBlock, currentBlock, currentFromBlock, fetched, pcFetch>>
    /\ UNCHANGED <<mapVars, passVars, serverVars, metaVars>>

\* part_002 134-136, 142-153: the query throws for the last time
QueryFailsGiveUp ==
    /\ pcFetch = "query"
    /\ ~AttemptsLeft(retries + 1)
    /\ Issue(FALSE)
    /\ ChunkDone(<<>>, GiveUpResume(currentToBlock + 1))
    /\ UNCHANGED <<fromBlock, currentBlock, currentProviderIndex>>
    /\ UNCHANGED <<mapVars, passVars, serverVars, metaVars>>

NextFetch == QuerySucceeds \/ QueryFailsRetry \/ QueryFailsGiveUp

SpecFetch == InitFetch /\ [][NextFetch]_vars

\* ------------------------------------------------------------------------
\* Properties of the chunked backfill (checked under SpecFetch)
\* ------------------------------------------------------------------------
\* the sub-ranges queried so far
QueriedRanges == {<<queries[i].from, queries[i].to>> : i \in DOMAIN queries}

\* the number of failed queries of the sub-range that starts at block f
FailuresOf(f) ==
    Cardinality({i \in DOMAIN queries : queries[i].from = f /\ ~queries[i].ok})

\* query i is the last, failed attempt of a sub-range that was given up
GaveUp(i) ==
    /\ ~queries[i].ok
    /\ FailuresOf(queries[i].from) = 3
    /\ \A j \in DOMAIN queries : queries[j].from = queries[i].from => j <= i

NoExhaustion == \A i \in DOMAIN queries : ~GaveUp(i)

\* C4: the sub-ranges queried are consecutive and pairwise disjoint, none
\* extends more than maxBlockRange past its first block and, when no sub-range
\* exhausts its retries, every block of start..end, the end block included,
\* lies in exactly one of them.
C4_ChunkCoverage ==
    /\ \A i \in DOMAIN queries :
         /\ queries[i].from <= queries[i].to
         /\ queries[i].to - queries[i].from <= maxBlockRange
         /\ i = 1 => queries[i].from = fromBlock
         /\ i > 1 => \/ /\ queries[i].from = queries[i - 1].from
                        /\ queries[i].to = queries[i - 1].to
                     \/ queries[i].from = queries[i - 1].to + 1
    /\ (pcFetch = "done" /\ NoExhaustion) =>
         \A b \in fromBlock..currentBlock :
           Cardinality({r \in QueriedRanges : r[1] <= b /\ b <= r[2]}) = 1

\* C9: a sub-range is queried at most 3 times, and a query that repeats the
\* sub-range of the query before it follows a failure and goes to the next
\* provider of the list, wrapping around at its end.
C9_RetryRotation ==
    /\ \A i \in DOMAIN queries :
         Cardinality({j \in DOMAIN queries : queries[j].from = queries[i].from}) <= 3
    /\ \A i \in DOMAIN queries :
         (i > 1 /\ queries[i].from = queries[i - 1].from)
         => /\ ~queries[i - 1].ok
            /\ queries[i].provider = (queries[i - 1].provider + 1) % 3

\* a sub-range took all three attempts, and a retry wrapped around from the
\* last provider of the list to the first
C9_Witness ==
    /\ \E i \in DOMAIN queries : GaveUp(i)
    /\ \E i \in DOMAIN queries :
         /\ i > 1
         /\ queries[i].from = queries[i - 1].from
         /\ queries[i - 1].provider = 2
         /\ queries[i].provider = 0

\* the events of the queries that answered, in the order of the queries
RECURSIVE AnsweredLogs(_)
AnsweredLogs(n) ==
    IF n = 0 THEN <<>>
    ELSE AnsweredLogs(n - 1)
           \o (IF queries[n].ok THEN LogsIn(queries[n].from, queries[n].to) ELSE <<>>)

\* C10: a sub-range whose 3 attempts all failed contributes no events, the
\* sub-range after it is still queried, and what is returned is the events
\* of the sub-ranges that answered.
C10_PartialResult ==
    /\ \A i \in DOMAIN queries :
         GaveUp(i) =>
           /\ \A k \in DOMAIN fetched :
                ~(queries[i].from <= fetched[k].blockNumber
                    /\ fetched[k].blockNumber <= queries[i].to)
           /\ queries[i].to + 1 < currentBlock =>
                IF i = Len(queries)
                THEN pcFetch = "query" /\ currentFromBlock = queries[i].to + 1
                ELSE queries[i + 1].from = queries[i].to + 1
    /\ pcFetch = "done" => fetched = AnsweredLogs(Len(queries))

\* the backfill returned: a sub-range was given up between two that answered
C10_Witness ==
    /\ pcFetch = "done"
    /\ \E i \in DOMAIN queries :
         /\ GaveUp(i)
         /\ \E j \in DOMAIN queries : j < i /\ queries[j].ok
         /\ \E j \in DOMAIN queries : j > i /\ queries[j].ok
    /\ Len(fetched) >= 2

\* ------------------------------------------------------------------------
\* SpecPass: fetchRealData of the dev server (part_002 178-513) from the
\* moment the per-kind lists are fetched: merge, sort, apply, statistics.
\* Amounts and supplies, decimal strings in the program, are numbers here;
\* parseInt(x) || d is ParseIntOr(x, d).  Descriptions, gas and value fields
\* of the journal rows are left out.
\* ------------------------------------------------------------------------
\* The logs of the contract on the chain, each with what the block and
\* transaction lookups answer for it (timestamp, txFrom).  Addresses are
\* checksummed as the RPC library returns them.
ChainLogs ==
    {[signature |-> "RoleGranted", blockNumber |-> 1, logIndex |-> 0,
      transactionHash |-> "0xt1", timestamp |-> 86399, txFrom |-> "0xAa",
      args |-> [role |-> MINTER_ROLE, account |-> "0xBb", sender |-> "0xAa"]],
     [signature |-> "TransferSingle", blockNumber |-> 1, logIndex |-> 1,
      transactionHash |-> "0xt1", timestamp |-> 86399, txFrom |-> "0xAa",
      args |-> [operator |-> "0xAa", from |-> ZERO_ADDRESS, to |-> "0xBb",
                id |-> 1, value |-> 0]],
     [signature |-> "TokenCreated", blockNumber |-> 2, logIndex |-> 0,
      transactionHash |-> "0xt2", timestamp |-> 86400, txFrom |-> "0xAa",
      args |-> [tokenId |-> 1, tokenType |-> 1, category |-> "weapon",
                subCategory |-> "sub"]],
     [signature |-> "TransferSingle", blockNumber |-> 2, logIndex |-> 1,
      transactionHash |-> "0xt2", timestamp |-> 86400, txFrom |-> "0xAa",
      args |-> [operator |-> "0xAa", from |-> ZERO_ADDRESS, to |-> "0xAa",
                id |-> 1, value |-> 2]],
     [signature |-> "TransferBatch", blockNumber |-> 2, logIndex |-> 2,
      transactionHash |-> "0xt3", timestamp |-> 86400, txFrom |-> "0xBb",
      args |-> [operator |-> "0xBb", from |-> ZERO_ADDRESS, to |-> "0xBb",
                ids |-> <<1, 2>>, values |-> <<1, 1>>]],
     [signature |-> "TokenMinted", blockNumber |-> 2, logIndex |-> 3,
      transactionHash |-> "0xt3", timestamp |-> 86400, txFrom |-> "0xBb",
      args |-> [to |-> "0xBb", tokenId |-> 1, amount |-> 1, tokenType |-> 1]],
     [signature |-> "TransferSingle", blockNumber |-> 2, logIndex |-> 4,
      transactionHash |-> "0xt4", timestamp |-> 86400, txFrom |-> "0xAa",
      args |-> [operator |-> "0xAa", from |-> "0xAa", to |-> ZERO_ADDRESS,
                id |-> 1, value |-> 1]],
     [signature |-> "RoleRevoked", blockNumber |-> 3, logIndex |-> 0,
      transactionHash |-> "0xt5", timestamp |-> 86401, txFrom |-> "0xAa",
      args |-> [role |-> ZERO_BYTES32, account |-> "0xBb", sender |-> "0xAa"]]}

LogKey(e) == <<e.blockNumber, e.logIndex>>

\* String.prototype.toLowerCase on the addresses of the model
ToLowerCase(a) ==
    CASE a = "0xAa" -> "0xaa"
      [] a = "0xBb" -> "0xbb"
      [] OTHER -> a

\* parseInt(x) || d for the decimal string of a non-negative integer
ParseIntOr(x, d) == IF x = 0 THEN d ELSE x

Max(a, b) == IF a > b THEN a ELSE b

\* part_002 149: every event of the list gets the name the list was fetched under
TagEvents(list, eventName) ==
    [i \in DOMAIN list |-> [eventName |-> eventName] @@ list[i]]

\* a variant of the comparator that looks at the block number only
compareBlockOnly(a, b) == a.blockNumber - b.blockNumber

\* part_002 200-205: the comparator given to sort
\* x || 0 for a number x
OrZero(x) == IF x = 0 THEN 0 ELSE x

compare(a, b) ==
    IF a.blockNumber # b.blockNumber
    THEN a.blockNumber - b.blockNumber
    ELSE OrZero(a.logIndex) - OrZero(b.logIndex)

\* Array.prototype.sort with the comparator: a stable sort, here by insertion
Insert(sorted, e) ==
    LET after == {i \in DOMAIN sorted : compare(sorted[i], e) > 0}
        k == IF after = {} THEN Len(sorted) + 1
             ELSE CHOOSE i \in after : \A j \in after : i <= j
    IN SubSeq(sorted, 1, k - 1) \o <<e>> \o SubSeq(sorted, k, Len(sorted))

RECURSIVE SortFrom(_, _)
SortFrom(sorted, rest) ==
    IF rest = <<>> THEN sorted
    ELSE SortFrom(Insert(sorted, Head(rest)), Tail(rest))

\* a variant that applies the events as they were concatenated
SortEventsKeepOrder(list) == list

SortEvents(list) == SortFrom(<<>>, list)

\* part_002 194-199: the lists that are merged (tokenMinted is not among them)
Combined(results) ==
    results.tokenCreated \o results.transferSingle \o results.transferBatch
      \o results.roleGranted \o results.roleRevoked

HasId(seq, id) == \E i \in DOMAIN seq : seq[i].id = id
IndexOfId(seq, id) == CHOOSE i \in DOMAIN seq : seq[i].id = id

\* part_002 226-240
baseEventData(e) ==
    [id |-> e.transactionHash \o "-" \o ToString(e.logIndex),
     eventType |-> e.eventName, blockNumber |-> e.blockNumber,
     transactionHash |-> e.transactionHash, logIndex |-> e.logIndex,
     timestamp |-> e.timestamp, from |-> e.txFrom]

PushEvent(rd, row) == [rd EXCEPT !.allEvents = Append(@, row)]

\* part_002 477-491 (address = transaction.from) and 435-449 (address = to)
TrackUser(rd, address, timestamp) ==
    LET id == ToLowerCase(address)
        rd1 == IF HasId(rd.users, id) THEN rd
               ELSE [rd EXCEPT !.users =
                       Append(@, [id |-> id, address |-> address,
                                  totalTokensCreated |-> 0, totalTokensMinted |-> 0,
                                  firstInteraction |-> timestamp,
                                  lastInteraction |-> timestamp])]
    IN [rd1 EXCEPT !.users[IndexOfId(rd1.users, id)].lastInteraction = timestamp]

\* part_002 243-292
ApplyTokenCreated(rd, e) ==
    LET tokenId == ToString(e.args.tokenId)
        rd1 == PushEvent(rd, baseEventData(e)
                 @@ [tokenId |-> tokenId, tokenType |-> e.args.tokenType,
                     category |-> e.args.category,
                     subCategory |-> e.args.subCategory, creator |-> e.txFrom])
        rd2 == IF HasId(rd1.tokens, tokenId) THEN rd1
               ELSE [rd1 EXCEPT !.tokens =
                       Append(@, [id |-> tokenId, tokenId |-> tokenId,
                                  tokenType |-> e.args.tokenType,
                                  category |-> e.args.category,
                                  subCategory |-> e.args.subCategory,
                                  soulbound |-> FALSE, maxSupply |-> 0,
                                  currentSupply |-> 0, creator |-> e.txFrom,
                                  tokenURI |-> "", createdAt |-> e.timestamp,
                                  createdAtBlock |-> e.blockNumber,
                                  createdTxHash |-> e.transactionHash,
                                  forgeId |-> ""])]
        creationId == e.transactionHash \o "-" \o ToString(e.logIndex)
    IN IF HasId(rd2.tokenCreations, creationId) THEN rd2
       ELSE [rd2 EXCEPT !.tokenCreations =
               Append(@, [id |-> creationId, token |-> tokenId, tokenId |-> tokenId,
                          tokenType |-> e.args.tokenType,
                          category |-> e.args.category,
                          subCategory |-> e.args.subCategory,
                          creator |-> ToLowerCase(e.txFrom),
                          timestamp |-> e.timestamp, blockNumber |-> e.blockNumber,
                          transactionHash |-> e.transactionHash])]

\* part_002 316-351 / 383-393: the supply of a known token after a transfer
SupplyAfter(supply, from, to, numericValue) ==
    IF from = ZERO_ADDRESS THEN supply + numericValue
    ELSE IF to = ZERO_ADDRESS THEN Max(0, supply - numericValue)
    ELSE supply

\* part_002 294-355
ApplyTransferSingle(rd, e) ==
    LET tokenId == ToString(e.args.id)
        numericValue == ParseIntOr(e.args.value, 1)
        rd1 == PushEvent(rd, baseEventData(e)
                 @@ [tokenId |-> tokenId, fromAddress |-> e.args.from,
                     toAddress |-> e.args.to, amount |-> e.args.value,
                     operator |-> e.args.operator])
        k == IndexOfId(rd1.tokens, tokenId)
        rd2 == [rd1 EXCEPT !.tokens[k].currentSupply =
                  SupplyAfter(@, e.args.from, e.args.to, numericValue)]
        tokenMint == [id |-> e.transactionHash \o "-" \o ToString(e.logIndex)
                               \o "-" \o tokenId,
                      token |-> tokenId, to |-> ToLowerCase(e.args.to),
                      amount |-> e.args.value, timestamp |-> e.timestamp,
                      blockNumber |-> e.blockNumber,
                      transactionHash |-> e.transactionHash,
                      operator |-> e.args.operator,
                      tokenName |-> "Token " \o tokenId,
                      tokenCategory |-> rd1.tokens[k].category,
                      tokenSubCategory |-> rd1.tokens[k].subCategory,
                      tokenForgeId |-> rd1.tokens[k].forgeId]
    IN IF ~HasId(rd1.tokens, tokenId) THEN rd1
       ELSE IF e.args.from = ZERO_ADDRESS
            THEN [rd2 EXCEPT !.tokenMints = Append(@, tokenMint)]
            ELSE rd2

\* part_002 376-397
RECURSIVE BatchSupply(_, _, _)
BatchSupply(rd, e, i) ==
    IF i > Len(e.args.ids) THEN rd
    ELSE LET tokenId == ToString(e.args.ids[i])
             numericValue == ParseIntOr(e.args.values[i], 1)
             next == IF ~HasId(rd.tokens, tokenId) THEN rd
                     ELSE [rd EXCEPT
                             !.tokens[IndexOfId(rd.tokens, tokenId)].currentSupply =
                               SupplyAfter(@, e.args.from, e.args.to, numericValue)]
         IN BatchSupply(next, e, i + 1)

\* part_002 357-397
ApplyTransferBatch(rd, e) ==
    BatchSupply(PushEvent(rd, baseEventData(e)
                  @@ [tokenIds |-> e.args.ids, amounts |-> e.args.values,
                      fromAddress |-> e.args.from, toAddress |-> e.args.to,
                      operator |-> e.args.operator]),
                e, 1)

\* part_002 405-409 / 461-465
devRoleName(role) ==
    IF role = MINTER_ROLE THEN "MINTER_ROLE"
    ELSE IF role = ZERO_BYTES32 THEN "DEFAULT_ADMIN_ROLE"
    ELSE "UNKNOWN_ROLE"

\* part_002 399-418 / 456-474
ApplyRoleEvent(rd, e) ==
    PushEvent(rd, baseEventData(e)
      @@ [role |-> devRoleName(e.args.role), roleHash |-> e.args.role,
          account |-> e.args.account, sender |-> e.args.sender])

\* part_002 420-455
ApplyTokenMinted(rd, e) ==
    LET rd1 == PushEvent(rd, baseEventData(e)
                 @@ [tokenId |-> ToString(e.args.tokenId), toAddress |-> e.args.to,
                     amount |-> e.args.amount, tokenType |-> e.args.tokenType])
        rd2 == TrackUser(rd1, e.args.to, e.timestamp)
        k == IndexOfId(rd2.users, ToLowerCase(e.args.to))
    IN [rd2 EXCEPT !.users[k].totalTokensMinted = @ + e.args.amount]

\* part_002 243-491: one event whose block and transaction were found
ApplyEvent(rd, e) ==
    LET rd1 == CASE e.eventName = "TokenCreated" -> ApplyTokenCreated(rd, e)
                 [] e.eventName = "TransferSingle" -> ApplyTransferSingle(rd, e)
                 [] e.eventName = "TransferBatch" -> ApplyTransferBatch(rd, e)
                 [] e.eventName = "RoleGranted" -> ApplyRoleEvent(rd, e)
                 [] e.eventName = "TokenMinted" -> ApplyTokenMinted(rd, e)
                 [] e.eventName = "RoleRevoked" -> ApplyRoleEvent(rd, e)
                 [] OTHER -> rd
    IN TrackUser(rd1, e.txFrom, e.timestamp)

RECURSIVE SumSupply(_, _)
SumSupply(tokens, i) ==
    IF i > Len(tokens) THEN 0
    ELSE ParseIntOr(tokens[i].currentSupply, 0) + SumSupply(tokens, i + 1)

\* part_002 501-513
UpdatedStats(rd, now) ==
    [rd EXCEPT !.globalStats =
       [@ EXCEPT !.totalTokens = Len(rd.tokens),
                 !.totalUsers = Len(rd.users),
                 !.totalEvents = Len(rd.allEvents),
                 !.totalSupply = SumSupply(rd.tokens, 1),
                 !.totalMints = SumSupply(rd.tokens, 1),
                 !.lastUpdated = now]]

\* the readings of the wall clock (Date.now) at the end of a pass
Clock == {"1700000000000", "1700000300000"}

\* all the orders a set of logs can be listed in
PermsOf(S) ==
    {p \in [1..Cardinality(S) -> S] :
       \A i, j \in 1..Cardinality(S) : i # j => p[i] # p[j]}

LogsOfKind(S, kind) == {e \in S : e.signature = kind}

\* part_002 118-157: the list fetched for one kind, in any order of arrival,
\* every element tagged with the kind
FetchedLists(S, kind) == {TagEvents(p, kind) : p \in PermsOf(LogsOfKind(S, kind))}

\* part_002 79-85 cleared state, 178-183 the six fetched lists; missing holds
\* the logs whose block or transaction lookup will answer null
InitPass ==
    /\ InitMapping
    /\ FetchIdle
    /\ ServerIdle
    /\ \E S \in SUBSET ChainLogs :
         /\ eventResults \in
              [tokenCreated : FetchedLists(S, "TokenCreated"),
               tokenMinted : FetchedLists(S, "TokenMinted"),
               transferSingle : FetchedLists(S, "TransferSingle"),
               transferBatch : FetchedLists(S, "TransferBatch"),
               roleGranted : FetchedLists(S, "RoleGranted"),
               roleRevoked : FetchedLists(S, "RoleRevoked")]
         /\ missing \in {{}} \cup {{LogKey(e)} : e \in S}
    /\ raising = {}
    /\ ordered = <<>>
    /\ idx = 0
    /\ realData = EmptyRealData
    /\ pcPass = "merge"

\* part_002 211: the loop continues while i < allEvents.length
AfterEvent(i) == IF i < Len(ordered) THEN "process" ELSE "stats"

\* part_002 194-205
MergeSort ==
    /\ pcPass = "merge"
    /\ ordered' = SortEvents(Combined(eventResults))
    /\ pcPass' = IF Len(ordered') > 0 THEN "process" ELSE "stats"
    /\ UNCHANGED <<eventResults, idx, realData, missing, raising, mapVars, fetchVars, serverVars, metaVars>>

\* part_002 212-491: one iteration for an event whose lookups succeed
ProcessEvent ==
    /\ pcPass = "process"
    /\ LogKey(ordered[idx + 1]) \notin missing
    /\ LogKey(ordered[idx + 1]) \notin raising
    /\ realData' = ApplyEvent(realData, ordered[idx + 1])
    /\ idx' = idx + 1
    /\ pcPass' = AfterEvent(idx + 1)
    /\ UNCHANGED <<eventResults, ordered, missing, raising, mapVars, fetchVars, serverVars, metaVars>>

\* a variant that journals the event before it skips it
SkipEventJournaled ==
    /\ pcPass = "process"
    /\ LogKey(ordered[idx + 1]) \in missing
    /\ realData' = PushEvent(realData, baseEventData(ordered[idx + 1]))
    /\ idx' = idx + 1
    /\ pcPass' = AfterEvent(idx + 1)
    /\ UNCHANGED <<eventResults, ordered, missing, raising, mapVars, fetchVars, serverVars, metaVars>>

\* part_002 220-223: block or transaction not found, the event is skipped
SkipEvent ==
    /\ pcPass = "process"
    /\ LogKey(ordered[idx + 1]) \in missing
    /\ idx' = idx + 1
    /\ pcPass' = AfterEvent(idx + 1)
    /\ UNCHANGED <<eventResults, ordered, realData, missing, raising, mapVars, fetchVars, serverVars, metaVars>>

\* part_002 501-513
UpdateStats ==
    /\ pcPass = "stats"
    /\ \E now \in Clock : realData' = UpdatedStats(realData, now)
    /\ pcPass' = "done"
    /\ UNCHANGED <<eventResults, ordered, idx, missing, raising, mapVars, fetchVars, serverVars, metaVars>>

NextPass == MergeSort \/ ProcessEvent \/ SkipEvent \/ UpdateStats

SpecPass == InitPass /\ [][NextPass]_vars

\* ------------------------------------------------------------------------
\* Properties of the dev-server pass (SpecPass)
\* ------------------------------------------------------------------------
RECURSIVE ApplyAll(_, _, _)
ApplyAll(rd, events, miss) ==
    IF events = <<>> THEN rd
    ELSE ApplyAll(IF LogKey(Head(events)) \in miss THEN rd
                  ELSE ApplyEvent(rd, Head(events)),
                  Tail(events), miss)

\* the state a whole pass ends in when the lists arrive as in results
PassOutcome(results, miss, now) ==
    UpdatedStats(ApplyAll(EmptyRealData, SortEvents(Combined(results)), miss), now)

SeqSet(seq) == {seq[i] : i \in DOMAIN seq}

\* the same fetched events, every per-kind list in any other order
Rearrangements(results) ==
    [tokenCreated : PermsOf(SeqSet(results.tokenCreated)),
     tokenMinted : PermsOf(SeqSet(results.tokenMinted)),
     transferSingle : PermsOf(SeqSet(results.transferSingle)),
     transferBatch : PermsOf(SeqSet(results.transferBatch)),
     roleGranted : PermsOf(SeqSet(results.roleGranted)),
     roleRevoked : PermsOf(SeqSet(results.roleRevoked))]

KeyBefore(a, b) ==
    \/ a.blockNumber < b.blockNumber
    \/ a.blockNumber = b.blockNumber /\ a.logIndex < b.logIndex

InKeyOrder(seq) == \A i, j \in DOMAIN seq : i < j => KeyBefore(seq[i], seq[j])

ServerLists ==
    [tokenCreated |-> TagEvents(
       <<[signature |-> "TokenCreated", blockNumber |-> 1, logIndex |-> 0,
          transactionHash |-> "0xt1", timestamp |-> 86399, txFrom |-> "0xAa",
          args |-> [tokenId |-> 1, tokenType |-> 1, category |-> "weapon",
                    subCategory |-> "sub"]],
         [signature |-> "TokenCreated", blockNumber |-> 2, logIndex |-> 0,
          transactionHash |-> "0xt2", timestamp |-> 86400, txFrom |-> "0xBb",
          args |-> [tokenId |-> 2, tokenType |-> 1, category |-> "armor",
                    subCategory |-> "sub"]]>>, "TokenCreated"),
     tokenMinted |-> <<>>,
     transferSingle |-> TagEvents(
       <<[signature |-> "TransferSingle", blockNumber |-> 2, logIndex |-> 1,
          transactionHash |-> "0xt2", timestamp |-> 86400, txFrom |-> "0xBb",
          args |-> [operator |-> "0xBb", from |-> ZERO_ADDRESS, to |-> "0xBb",
                    id |-> 1, value |-> 2]]>>, "TransferSingle"),
     transferBatch |-> <<>>, roleGranted |-> <<>>, roleRevoked |-> <<>>]

\* part_002 194-205: the allEvents of a pass over that chain
ServerEvents == SortEvents(Combined(ServerLists))

\* what provider.getCode can answer: no code, or the code of the contract
CodeAnswers == {"0x", "0x6080"}

\* part_002 79-85
ClearedData(rd) ==
    [rd EXCEPT !.tokens = <<>>, !.tokenCreations = <<>>, !.users = <<>>,
               !.tokenMints = <<>>, !.userTokenBalances = <<>>,
               !.roleChanges = <<>>, !.allEvents = <<>>]

\* a call is between its first statement and its return
Active(p) == passes[p].pc \notin {"idle", "done"}

\* part_002 75-90: the call clears the collections and suspends on the
\* first network call
BeginPass(p) ==
    /\ passes[p].pc = "idle"
    /\ realData' = ClearedData(realData)
    /\ passes' = [passes EXCEPT ![p].pc = "check"]
    /\ lastQuery' = NoQuery

\* part_002 915-919: await fetchRealData() of startServer
StartServer ==
    /\ ~timer
    /\ BeginPass(1)
    /\ UNCHANGED <<timer, metaVars, mapVars, fetchVars, eventResults, ordered, idx,
                   missing, raising, pcPass>>

\* part_002 923-930: setInterval, reached when the first call has returned
InstallTimer ==
    /\ ~timer
    /\ passes[1].pc = "done"
    /\ timer' = TRUE
    /\ lastQuery' = NoQuery
    /\ UNCHANGED <<passes, metaVars, mapVars, fetchVars, passVars>>

\* part_002 924-930: the interval elapses and its callback calls fetchRealData
Tick ==
    /\ timer
    /\ \E p \in 2..MaxPasses :
         /\ \A q \in 1..(p - 1) : passes[q].pc # "idle"
         /\ BeginPass(p)
    /\ UNCHANGED <<timer, metaVars, mapVars, fetchVars, eventResults, ordered, idx,
                   missing, raising, pcPass>>

\* part_002 106-111: the answer of getCode; without code the call returns
CodeCheck(p) ==
    /\ passes[p].pc = "check"
    /\ \E contractCode \in CodeAnswers :
         passes' = [passes EXCEPT
                      ![p].code = contractCode,
                      ![p].pc = IF contractCode = "0x" THEN "done" ELSE "fetch",
                      ![p].outcome = IF contractCode = "0x" THEN "returned"
                                     ELSE @]
    /\ lastQuery' = NoQuery
    /\ UNCHANGED <<timer, metaVars, mapVars, fetchVars, passVars>>

\* part_002 178-205: the range queries of the six kinds, merge and sort
FetchEvents(p) ==
    /\ passes[p].pc = "fetch"
    /\ passes' = [passes EXCEPT
                    ![p].queried = TRUE,
                    ![p].pc = IF Len(ServerEvents) > 0 THEN "apply" ELSE "stats"]
    /\ lastQuery' = NoQuery
    /\ UNCHANGED <<timer, metaVars, mapVars, fetchVars, passVars>>

\* part_002 211-497: one iteration of the apply loop, between two awaits
ApplyNext(p) ==
    /\ passes[p].pc = "apply"
    /\ realData' = ApplyEvent(realData, ServerEvents[passes[p].i + 1])
    /\ passes' = [passes EXCEPT
                    ![p].i = @ + 1,
                    ![p].pc = IF passes[p].i + 1 < Len(ServerEvents)
                              THEN "apply" ELSE "stats"]
    /\ lastQuery' = NoQuery
    /\ UNCHANGED <<timer, metaVars, mapVars, fetchVars, eventResults, ordered, idx,
                   missing, raising, pcPass>>

\* part_002 501-516: statistics, then the call returns
FinishPass(p) ==
    /\ passes[p].pc = "stats"
    /\ \E now \in Clock : realData' = UpdatedStats(realData, now)
    /\ passes' = [passes EXCEPT ![p].pc = "done", ![p].outcome = "returned"]
    /\ lastQuery' = NoQuery
    /\ UNCHANGED <<timer, metaVars, mapVars, fetchVars, eventResults, ordered, idx,
                   missing, raising, pcPass>>

\* the comparator of the resolvers: parseInt of one field, either direction
ByField(a, b, field, orderDirection) ==
    IF orderDirection = "desc" THEN b[field] - a[field] ELSE a[field] - b[field]

\* Array.prototype.sort with that comparator: stable, here by insertion
InsertByField(sorted, e, field, orderDirection) ==
    LET after == {i \in DOMAIN sorted :
                    ByField(sorted[i], e, field, orderDirection) > 0}
        k == IF after = {} THEN Len(sorted) + 1
             ELSE CHOOSE i \in after : \A j \in after : i <= j
    IN SubSeq(sorted, 1, k - 1) \o <<e>> \o SubSeq(sorted, k, Len(sorted))

RECURSIVE SortByField(_, _, _, _)
SortByField(sorted, rest, field, orderDirection) ==
    IF rest = <<>> THEN sorted
    ELSE SortByField(InsertByField(sorted, Head(rest), field, orderDirection),
                     Tail(rest), field, orderDirection)

\* the resolver calls: the resolver, its ordering arguments and whether a
\* where filter is given
Queries ==
    [name : {"tokens"}, orderBy : {"createdAt", "tokenId"},
     orderDirection : {"desc", "asc"}, filtered : BOOLEAN]
    \cup [name : {"users"}, orderBy : {"totalTokensCreated", "id"},
          orderDirection : {"desc", "asc"}, filtered : BOOLEAN]
    \cup [name : {"token", "user", "tokenCreations", "allEvents", "tokenMints",
                  "userTokenBalances", "roleChanges", "globalStats", "dailyStats"},
          orderBy : {"timestamp"}, orderDirection : {"desc"}, filtered : {FALSE}]

\* part_002 527-553: without a filter, filtered is realData.tokens itself and
\* sort reorders it in place; filter answers a new array
tokensResolver(rd, q) ==
    IF ~q.filtered /\ q.orderBy = "createdAt"
    THEN [rd EXCEPT !.tokens = SortByField(<<>>, @, "createdAt", q.orderDirection)]
    ELSE rd

\* part_002 577-594: the same with realData.users
usersResolver(rd, q) ==
    IF ~q.filtered /\ q.orderBy = "totalTokensCreated"
    THEN [rd EXCEPT !.users =
            SortByField(<<>>, @, "totalTokensCreated", q.orderDirection)]
    ELSE rd

\* part_002 525-683: realData after the resolver q.name has answered; the
\* resolvers other than tokens and users copy or slice what they read
Resolved(rd, q) ==
    CASE q.name = "tokens" -> tokensResolver(rd, q)
      [] q.name = "users" -> usersResolver(rd, q)
      [] OTHER -> rd

\* part_002 525-683: a GraphQL request runs one resolver
Query ==
    \E q \in Queries :
       /\ lastQuery' = [name |-> q.name, orderBy |-> q.orderBy,
                        orderDirection |-> q.orderDirection,
                        filtered |-> q.filtered, before |-> realData]
       /\ realData' = Resolved(realData, q)
       /\ UNCHANGED <<passes, timer, metaVars, mapVars, fetchVars, eventResults,
                      ordered, idx, missing, raising, pcPass>>

PassStep ==
    \E p \in 1..MaxPasses :
       CodeCheck(p) \/ FetchEvents(p) \/ ApplyNext(p) \/ FinishPass(p)

NextServer == StartServer \/ InstallTimer \/ Tick \/ PassStep \/ Query

SpecServer == Init /\ [][NextServer]_vars

\* C11: at most one fetchRealData call is clearing or appending to the
\* shared collections at any time; the periodic re-scan never begins while
\* an earlier call is still suspended on a network call.
C11_SingleWriter ==
    Cardinality({p \in 1..MaxPasses : Active(p)}) <= 1

\* ------------------------------------------------------------------------
\* SpecMeta: one call of fetchAndParseMetadata (mapping.ts 29-180) on an
\* empty store, for every token id, URI and pair of retrieval answers
\* ------------------------------------------------------------------------
MetaTokenIds == {"1", "2"}
MetaURIs == {NullStr, "", HttpURI, IpfsURI, OtherURI}

NumericNamePayload == [FullPayload EXCEPT !.name = NonString]
ForgeOnlyPayload == [NoPayload EXCEPT !.forge_id = "f-3"]
ScalarAttributePayload ==
    [NoPayload EXCEPT !.attributes = <<[kind |-> "scalar", trait_type |-> Absent,
                                        value |-> Absent]>>]

Responses ==
    {Unreachable,
     [kind |-> "status", payload |-> NoPayload],
     [kind |-> "notjson", payload |-> NoPayload],
     [kind |-> "nonobject", payload |-> NoPayload],
     ObjectResponse(NoPayload), ObjectResponse(FullPayload),
     ObjectResponse(ForgeOnlyPayload), ObjectResponse(NumericNamePayload),
     ObjectResponse(ScalarAttributePayload)}

InitMeta ==
    /\ store = EmptyStore
    /\ before = EmptyStore
    /\ applied = 0
    /\ lastEvent = [kind |-> "none"]
    /\ FetchIdle
    /\ PassIdle
    /\ \E tokenId \in MetaTokenIds, tokenURI \in MetaURIs, r1, r2 \in Responses :
         metaCall = [pc |-> "call", tokenId |-> tokenId, tokenURI |-> tokenURI,
                     r1 |-> r1, r2 |-> r2, metadata |-> NullStr]

\* the call runs to its return, or the runtime aborts the handler inside it
ResolveMetadata ==
    /\ metaCall.pc = "call"
    /\ LET res == fetchAndParseMetadata(store, metaCall.tokenId, metaCall.tokenURI,
                                        metaCall.r1, metaCall.r2)
       IN /\ store' = res.s
          /\ before' = store
          /\ metaCall' = [metaCall EXCEPT
                            !.pc = IF res.aborted THEN "aborted" ELSE "returned",
                            !.metadata = res.metadata]
    /\ UNCHANGED <<applied, lastEvent, fetchVars, passVars, serverVars>>

NextMeta == ResolveMetadata

SpecMeta == InitMeta /\ [][NextMeta]_vars

MetaFetches == startsWithHttp(metaCall.tokenURI) \/ startsWithIpfs(metaCall.tokenURI)

\* C12: when the content a token's URI refers to is retrieved but is not
\* JSON, fetchAndParseMetadata returns, without raising, a TokenMetadata with
\* name "Token " + id, the default description, empty image and empty
\* rewardId.
C12_UnparsableFallback ==
    ( /\ metaCall.pc \in {"returned", "aborted"}
      /\ MetaFetches
      /\ metaCall.r1.kind = "notjson"
      /\ metaCall.r2.kind = "notjson" )
    => /\ metaCall.pc = "returned"
       /\ metaCall.metadata.name = "Token " \o metaCall.tokenId
       /\ metaCall.metadata.description
            = "Description for token " \o metaCall.tokenId
       /\ metaCall.metadata.image = ""
       /\ metaCall.metadata.rewardId = ""
       /\ store.tokenMetadata[metaCall.tokenId] = metaCall.metadata

\* a call for token 2 with an ipfs URI whose content is not JSON has returned
C12_Witness ==
    /\ metaCall.pc = "returned"
    /\ metaCall.tokenId = "2"
    /\ metaCall.tokenURI = IpfsURI
    /\ metaCall.r1.kind = "notjson"
    /\ metaCall.r2.kind = "notjson"

\* C13: fetchAndParseMetadata returns a metadata record without raising for
\* every token id and every retrieval outcome (URI absent or empty, other
\* scheme, unreachable, non-success status, not JSON, JSON that is not an
\* object, JSON object).
C13_NeverRaises ==
    /\ metaCall.pc # "aborted"
    /\ metaCall.pc = "returned" => metaCall.metadata.token = metaCall.tokenId

\* ------------------------------------------------------------------------
\* Further properties of the mapping handlers (checked under Spec)
\* ------------------------------------------------------------------------
IsRoleEvent(ev) == ev.kind \in {"RoleGranted", "RoleRevoked"}

\* the key of the rows of an event: transaction hash, "-", log index
RowKey(ev) == ev.transactionHash \o "-" \o ToString(ev.logIndex)

\* C14: handleRoleGranted and handleRoleRevoked, given a role hash that is not
\* one of the recognised roles, append a RoleChange whose roleName is
\* "UNKNOWN" and complete.
C14_UnknownRole ==
    (IsRoleEvent(lastEvent)
       /\ lastEvent.role \notin {MINTER_ROLE, DEFAULT_ADMIN_ROLE, ZERO_BYTES32})
    => /\ ~Has(before.roleChanges, RowKey(lastEvent))
       /\ Has(store.roleChanges, RowKey(lastEvent))
       /\ store.roleChanges[RowKey(lastEvent)].roleName = "UNKNOWN"
       /\ store.roleChanges[RowKey(lastEvent)].role = lastEvent.role
       /\ store.roleChanges[RowKey(lastEvent)].granted
            = (lastEvent.kind = "RoleGranted")
       /\ \A id \in DOMAIN before.roleChanges :
            store.roleChanges[id] = before.roleChanges[id]

\* an unrecognised role was revoked after it had been granted
C14_Witness ==
    /\ lastEvent.kind = "RoleRevoked"
    /\ lastEvent.role = "0xdead"
    /\ \E id \in DOMAIN before.roleChanges :
         /\ before.roleChanges[id].granted
         /\ before.roleChanges[id].roleName = "UNKNOWN"
    /\ store.roleChanges[RowKey(lastEvent)].roleName = "UNKNOWN"

TotalEvents(s) == IF Has(s.globalStats, "1") THEN s.globalStats["1"].totalEvents ELSE 0

\* C15: after the handlers have applied any k events to an empty store,
\* GlobalStats.totalEvents equals k.
C15_TotalEvents == TotalEvents(store) = applied

\* C17: a mint or plain transfer that references a token id with no Token
\* record performs no UserTokenBalance update.
C17_UnknownTokenSkipped ==
    (lastEvent.kind = "TransferSingle"
       /\ ~Has(before.tokens, ToString(lastEvent.id)))
    => store.userTokenBalances = before.userTokenBalances

Found(list, miss) == SelectSeq(list, LAMBDA e : LogKey(e) \notin miss)

\* the fetched lists without the events whose lookups answer nothing
WithoutMissing(results, miss) ==
    [tokenCreated |-> Found(results.tokenCreated, miss),
     tokenMinted |-> Found(results.tokenMinted, miss),
     transferSingle |-> Found(results.transferSingle, miss),
     transferBatch |-> Found(results.transferBatch, miss),
     roleGranted |-> Found(results.roleGranted, miss),
     roleRevoked |-> Found(results.roleRevoked, miss)]

\* C16: an ordered event whose block or transaction lookup returns nothing
\* is skipped with no change to any collection, and processing continues
\* with the next event: the pass ends in the state of a pass over the other
\* events alone, and while the event is skipped nothing changes.
C16_MissingSkipped ==
    /\ pcPass = "done" =>
         realData = PassOutcome(WithoutMissing(eventResults, missing), {},
                                realData.globalStats.lastUpdated)
    /\ (pcPass \in {"process", "stats"} /\ idx > 0
          /\ LogKey(ordered[idx]) \in missing /\ idx = 1)
       => realData = EmptyRealData

\* a pass is done that skipped an event in the middle of the merged sequence
\* and applied the events before and after it
C16_Witness ==
    /\ pcPass = "done"
    /\ Len(ordered) >= 3
    /\ \E i \in 2..(Len(ordered) - 1) : LogKey(ordered[i]) \in missing
    /\ Len(realData.allEvents) = Len(ordered) - 1
    /\ \A e \in SeqSet(realData.allEvents) :
         <<e.blockNumber, e.logIndex>> \notin missing

\* ------------------------------------------------------------------------
\* Further properties of the server (checked under SpecServer)
\* ------------------------------------------------------------------------
\* C18: when the contract-code check of a pass reports no code at the
\* address, the pass aborts as a fatal error, having issued no range query
\* and applied no event, rather than finishing like a scan that found nothing.
C18_NoCodeIsFatal ==
    \A p \in 1..MaxPasses :
       passes[p].code = "0x" =>
         /\ passes[p].outcome = "threw"
         /\ ~passes[p].queried
         /\ passes[p].i = 0

\* C19: running any read resolver with any arguments leaves realData
\* unchanged, the stored order of the elements of every collection included.
C19_ResolversReadOnly ==
    lastQuery.name # "none" => realData = lastQuery.before

\* part_002 178-183: every list the pass fetched, one after the other
AllFetched(results) == Combined(results) \o results.tokenMinted

\* C21: the sequence the pass applies is a permutation of the union of all
\* the per-kind lists it fetched: every fetched event of every queried kind
\* appears in it exactly once.
C21_MergeTotal ==
    pcPass \in {"process", "stats", "done"} =>
      /\ Len(ordered) = Len(AllFetched(eventResults))
      /\ SeqSet(ordered) = SeqSet(AllFetched(eventResults))

\* the TransferSingle event that moves element i of the batch ev
SingleOf(ev, i) ==
    [kind |-> "TransferSingle", transactionHash |-> ev.transactionHash,
     logIndex |-> ev.logIndex, blockNumber |-> ev.blockNumber,
     timestamp |-> ev.timestamp, txFrom |-> ev.txFrom, operator |-> ev.operator,
     from |-> ev.from, to |-> ev.to, id |-> ev.ids[i], value |-> ev.values[i]]

\* the store after the single transfers of elements i.. of the batch, in order
RECURSIVE AfterSingles(_, _, _)
AfterSingles(s, ev, i) ==
    IF i > Len(ev.ids) THEN s
    ELSE AfterSingles(handleTransferSingle(s, SingleOf(ev, i)), ev, i + 1)

\* supplies, balances, inventory items, users and the mint and user counters
Holdings(s) ==
    [tokens |-> s.tokens, userTokenBalances |-> s.userTokenBalances,
     userInventoryItems |-> s.userInventoryItems, users |-> s.users,
     totalMints |-> TotalMints(s),
     totalUsers |-> IF Has(s.globalStats, "1") THEN s.globalStats["1"].totalUsers
                    ELSE 0]

\* C22: one TransferBatch with ids [i1..ik] and amounts [v1..vk] leaves
\* supplies, balances, inventory items, user counters and the mint and user
\* counters of GlobalStats as k TransferSingle events (i1,v1) .. (ik,vk) with
\* the same operator, source and destination, in that order, would.
C22_BatchAsSingles ==
    lastEvent.kind = "TransferBatch" =>
      Holdings(store) = Holdings(AfterSingles(before, lastEvent, 1))

\* a batch moved token 1 twice between two users, out of a holding that a
\* batch mint had created
C22_Witness ==
    /\ lastEvent.kind = "TransferBatch"
    /\ ~IsMint(lastEvent.from)
    /\ lastEvent.ids = <<1, 1>>
    /\ LoadedBalance(before, lastEvent.from, 1) = 2
    /\ LoadedBalance(store, lastEvent.to, 1) = 2
    /\ ~Has(store.userTokenBalances, BalanceId(lastEvent.from, 1))
    /\ TotalMints(store) >= 2

\* ------------------------------------------------------------------------
\* The metadata-requested path (metadata-mapping.ts)
\* ------------------------------------------------------------------------
\* metadata-mapping.ts holds two definitions of fetchAndParseMetadata and of
\* handleMetadataRequested, one after the other.  Nothing in the file says
\* which of the two a build keeps, so a delivery runs either.
Definitions == {"first", "second"}

\* contract.try_tokenURI(tokenId): a revert, or the URI the contract returns
Reverted == "<reverted>"
TokenURIResults == {Reverted, "", HttpURI, IpfsURI, OtherURI}

\* metadata-mapping.ts 9-163: the first definition has no branch for an empty
\* URI; an empty URI starts with neither prefix, so no retrieval is made and
\* the defaults are saved together with a TokenProperties record.  The second
\* definition (215-366) is the text of mapping.ts 29-180.
fetchAndParseMetadataOf(definition, s, tokenId, tokenURI, r1, r2) ==
    IF definition = "first" /\ tokenURI = ""
    THEN LET m0 == DefaultMetadata(tokenId)
             properties == [metadata |-> tokenId, badgeType |-> "", createdBy |-> "",
                            rewardId |-> m0.rewardId, forgeId |-> ""]
             m2 == [m0 EXCEPT !.properties = tokenId]
         IN [s |-> [s EXCEPT !.tokenProperties = Put(@, tokenId, properties),
                             !.tokenMetadata = Put(@, tokenId, m2)],
             metadata |-> m2, aborted |-> FALSE]
    ELSE fetchAndParseMetadata(s, tokenId, tokenURI, r1, r2)

\* metadata-mapping.ts 181 / 388: what a reverted call is replaced by
RequestedURI(definition, result) ==
    IF result = Reverted
    THEN (IF definition = "first" THEN "" ELSE NullStr)
    ELSE result

\* metadata-mapping.ts 380-384: only the second definition returns when a
\* TokenMetadata of the id is stored
MetadataExists(definition, s, tokenIdString) ==
    definition = "second" /\ Has(s.tokenMetadata, tokenIdString)

\* metadata-mapping.ts 165-207 / 368-410
handleMetadataRequested(s, ev) ==
    LET tokenIdString == ToString(ev.tokenId)
        tokenURI == RequestedURI(ev.definition, ev.uriResult)
        res == fetchAndParseMetadataOf(ev.definition, s, tokenIdString, tokenURI,
                                       ev.r1, ev.r2)
        metadata == res.metadata
        s1 == [res.s EXCEPT !.tokenMetadata = Put(@, tokenIdString, metadata)]
        token == [s.tokens[tokenIdString] EXCEPT
                    !.metadata = tokenIdString,
                    !.name = metadata.name,
                    !.description = metadata.description,
                    !.image = metadata.image,
                    !.rewardId = metadata.rewardId,
                    !.forgeId = IF metadata.properties # NullStr
                                   /\ Has(s1.tokenProperties, metadata.properties)
                                THEN s1.tokenProperties[metadata.properties].forgeId
                                ELSE @]
    IN IF ~Has(s.tokens, tokenIdString) THEN s
       ELSE IF MetadataExists(ev.definition, s, tokenIdString) THEN s
       ELSE IF res.aborted THEN s
       ELSE [s1 EXCEPT !.tokens = Put(@, tokenIdString, token)]

\* The stores a request can find: nothing indexed yet, or token 1 created by
\* handleTokenCreated from one of the creation cases.
CreatedStore(c) ==
    handleTokenCreated(EmptyStore,
        [kind |-> "TokenCreated", transactionHash |-> "0x1", logIndex |-> 0,
         blockNumber |-> BlockOf(1), timestamp |-> BlockTime(BlockOf(1)),
         txFrom |-> c.creator, tokenId |-> 1, tokenType |-> 1,
         category |-> "weapon", subCategory |-> "sub", uri |-> c.uri, r1 |-> c.r1, r2 |-> c.r2])

RequestStores == {EmptyStore} \cup {CreatedStore(c) : c \in CreationCases}

InitRequest ==
    /\ store \in RequestStores
    /\ before = store
    /\ applied = 0
    /\ lastEvent = [kind |-> "none"]
    /\ metaCall = NoMetaCall
    /\ FetchIdle
    /\ PassIdle

DeliverMetadataRequested ==
    /\ lastEvent.kind = "none"
    /\ \E definition \in Definitions, tokenId \in TokenIds,
          uriResult \in TokenURIResults, r1, r2 \in Responses :
         LET ev == [kind |-> "MetadataRequested", definition |-> definition,
                    tokenId |-> tokenId, uriResult |-> uriResult,
                    r1 |-> r1, r2 |-> r2]
         IN Delivered(ev, handleMetadataRequested(store, ev))

NextRequest == DeliverMetadataRequested

SpecRequest == InitRequest /\ [][NextRequest]_vars

MetadataFieldsOf(token) ==
    [name |-> token.name, description |-> token.description,
     image |-> token.image, rewardId |-> token.rewardId, forgeId |-> token.forgeId]

\* C23: handleMetadataRequested for a token id whose TokenMetadata is already
\* stored resolves nothing: TokenMetadata, TokenProperties and the Token's
\* name, description, image, rewardId and forgeId are as they were before the
\* request.
C23_RequestIdempotent ==
    (lastEvent.kind = "MetadataRequested"
       /\ Has(before.tokenMetadata, ToString(lastEvent.tokenId)))
    => /\ store.tokenMetadata = before.tokenMetadata
       /\ store.tokenProperties = before.tokenProperties
       /\ \A id \in DOMAIN before.tokens :
            MetadataFieldsOf(store.tokens[id]) = MetadataFieldsOf(before.tokens[id])

\* ------------------------------------------------------------------------
\* Further properties of the metadata call (SpecMeta)
\* ------------------------------------------------------------------------
\* C24: every call of fetchAndParseMetadata that saves a TokenMetadata record
\* also saves a TokenProperties record of the same id and links it from the
\* metadata, for every input including an absent or empty URI; when a payload
\* was parsed, TokenProperties.forgeId is the payload's forge_id.
C24_PropertiesAlways ==
    (metaCall.pc = "returned" /\ Has(store.tokenMetadata, metaCall.tokenId))
    => /\ Has(store.tokenProperties, metaCall.tokenId)
       /\ store.tokenMetadata[metaCall.tokenId].properties = metaCall.tokenId
       /\ (MetaFetches /\ Parsed(metaCall.r2)
             /\ metaCall.r2.payload.forge_id # Absent)
          => store.tokenProperties[metaCall.tokenId].forgeId
               = metaCall.r2.payload.forge_id

\* C25: after a successful parse, TokenMetadata.rewardId is the payload's
\* rewardId when that key is present and the empty default when it is absent,
\* whatever the payload's forge_id holds.
C25_RewardIdFromPayload ==
    (metaCall.pc = "returned" /\ MetaFetches /\ Parsed(metaCall.r1))
    => store.tokenMetadata[metaCall.tokenId].rewardId
         = IF metaCall.r1.payload.rewardId # Absent
           THEN metaCall.r1.payload.rewardId
           ELSE ""

\* ------------------------------------------------------------------------
\* Further properties of the mapping handlers (Spec)
\* ------------------------------------------------------------------------
ActiveUsers(s, date) ==
    IF Has(s.dailyStats, date) THEN s.dailyStats[date].activeUsers ELSE 0

DayOf(ev) == ToString(ev.timestamp \div 86400)

\* C26: every event the handlers apply, of any kind, adds exactly one to
\* activeUsers of the DailyStats bucket floor(timestamp / 86400) and changes
\* no other bucket.
C26_ActiveUsersPerEvent ==
    lastEvent.kind # "none"
    => /\ ActiveUsers(store, DayOf(lastEvent))
            = ActiveUsers(before, DayOf(lastEvent)) + 1
       /\ \A date \in (DOMAIN store.dailyStats \cup DOMAIN before.dailyStats)
                        \ {DayOf(lastEvent)} :
            /\ Has(before.dailyStats, date)
            /\ store.dailyStats[date] = before.dailyStats[date]

\* ------------------------------------------------------------------------
\* Errors inside an iteration of the pass (part_002 213, 493-497)
\* ------------------------------------------------------------------------
\* a pass over lists some event of which has a lookup that raises
InitPassRaise ==
    /\ InitMapping
    /\ FetchIdle
    /\ ServerIdle
    /\ \E S \in SUBSET ChainLogs :
         /\ eventResults \in
              [tokenCreated : FetchedLists(S, "TokenCreated"),
               tokenMinted : FetchedLists(S, "TokenMinted"),
               transferSingle : FetchedLists(S, "TransferSingle"),
               transferBatch : FetchedLists(S, "TransferBatch"),
               roleGranted : FetchedLists(S, "RoleGranted"),
               roleRevoked : FetchedLists(S, "RoleRevoked")]
         /\ raising \in {{}} \cup {{LogKey(e)} : e \in S}
    /\ missing = {}
    /\ ordered = <<>>
    /\ idx = 0
    /\ realData = EmptyRealData
    /\ pcPass = "merge"

\* a variant in which the error leaves the loop and ends the pass, as an
\* error outside the loop does (part_002 515-519)
RaiseEventEndsPass ==
    /\ pcPass = "process"
    /\ LogKey(ordered[idx + 1]) \in raising
    /\ pcPass' = "done"
    /\ UNCHANGED <<eventResults, ordered, idx, realData, missing, raising,
                   mapVars, fetchVars, serverVars, metaVars>>

\* part_002 217-218, 493-496: provider.getBlock or provider.getTransaction
\* rejects inside the try of the iteration; nothing has been written yet, the
\* catch logs the error and continues with the next event
RaiseEvent ==
    /\ pcPass = "process"
    /\ LogKey(ordered[idx + 1]) \in raising
    /\ idx' = idx + 1
    /\ pcPass' = AfterEvent(idx + 1)
    /\ UNCHANGED <<eventResults, ordered, realData, missing, raising,
                   mapVars, fetchVars, serverVars, metaVars>>

NextPassRaise == MergeSort \/ ProcessEvent \/ RaiseEvent \/ UpdateStats

SpecPassRaise == InitPassRaise /\ [][NextPassRaise]_vars

IsBurn(e) ==
    /\ e.signature = "TransferSingle"
    /\ e.args.from # ZERO_ADDRESS
    /\ e.args.to = ZERO_ADDRESS

Supplies(rd) == [k \in DOMAIN rd.tokens |-> rd.tokens[k].currentSupply]

\* C28: a plain transfer whose destination is the zero address leaves every
\* Token.currentSupply as it was before the event: burns are not applied to
\* supply accounting.
C28_BurnKeepsSupply ==
    (pcPass \in {"process", "stats"} /\ idx > 0 /\ IsBurn(ordered[idx])
       /\ LogKey(ordered[idx]) \notin missing)
    => Supplies(realData)
         = Supplies(ApplyAll(EmptyRealData, SubSeq(ordered, 1, idx - 1), missing))

\* ------------------------------------------------------------------------
\* Mint records and role names of the mapping handlers (Spec)
\* ------------------------------------------------------------------------
\* C29: the number of TokenMint records is the number of mint
\* sub-transitions applied, one for each element transferred from the zero
\* address, every element of a TransferBatch included, and so equals
\* GlobalStats.totalMints.
C29_MintRecords == Cardinality(DOMAIN store.tokenMints) = TotalMints(store)

\* C30: a role event stores the name "MINTER" for the minter role hash,
\* "DEFAULT_ADMIN" for the default admin role (the 32-byte zero value the
\* events carry) and "UNKNOWN" only for a role outside these two.
C30_RoleNames ==
    IsRoleEvent(lastEvent)
    => store.roleChanges[RowKey(lastEvent)].roleName
         = IF lastEvent.role = MINTER_ROLE THEN "MINTER"
           ELSE IF lastEvent.role = ZERO_BYTES32 THEN "DEFAULT_ADMIN"
           ELSE "UNKNOWN"

\* ------------------------------------------------------------------------
\* Users and global counters of the mapping handlers (Spec)
\* ------------------------------------------------------------------------
\* the users the latest event created
NewUsers == DOMAIN store.users \ DOMAIN before.users

\* C31: a User's firstInteraction is the block timestamp of the first event
\* that referenced the address and never changes afterwards; lastInteraction
\* is the timestamp of the latest event that touched the user.
C31_InteractionTimes ==
    lastEvent.kind # "none"
    => /\ \A u \in NewUsers :
            /\ store.users[u].firstInteraction = lastEvent.timestamp
            /\ store.users[u].lastInteraction = lastEvent.timestamp
       /\ \A u \in DOMAIN before.users :
            /\ store.users[u].firstInteraction = before.users[u].firstInteraction
            /\ store.users[u].lastInteraction
                 \in {before.users[u].lastInteraction, lastEvent.timestamp}

\* ------------------------------------------------------------------------
\* The reference ledger of holdings
\* ------------------------------------------------------------------------
\* A ledger gives the holding of every account (the zero address is none) of
\* every token.  Moving value of token t from -> to debits from unless it is
\* the zero address and credits to unless it is the zero address.
LedgerOf(s) == [h \in Accounts \X TokenIds |-> LoadedBalance(s, h[1], h[2])]

LedgerMove(ledger, from, to, t, value) ==
    [h \in Accounts \X TokenIds |->
       ledger[h] + (IF h = <<to, t>> THEN value ELSE 0)
                 - (IF h = <<from, t>> THEN value ELSE 0)]

\* a move the history allows: a mint, or at most what the sender holds
LedgerAllows(ledger, from, t, value) ==
    from = ZERO_ADDRESS \/ value <= ledger[<<from, t>>]

RECURSIVE LedgerBatch(_, _, _)
LedgerBatch(ledger, ev, i) ==
    IF i > Len(ev.ids) THEN ledger
    ELSE LedgerBatch(LedgerMove(ledger, ev.from, ev.to, ev.ids[i], ev.values[i]),
                     ev, i + 1)

RECURSIVE LedgerBatchAllows(_, _, _)
LedgerBatchAllows(ledger, ev, i) ==
    IF i > Len(ev.ids) THEN TRUE
    ELSE /\ LedgerAllows(ledger, ev.from, ev.ids[i], ev.values[i])
         /\ LedgerBatchAllows(
              LedgerMove(ledger, ev.from, ev.to, ev.ids[i], ev.values[i]), ev, i + 1)

LedgerApply(ledger, ev) ==
    IF ev.kind = "TransferSingle"
    THEN LedgerMove(ledger, ev.from, ev.to, ev.id, ev.value)
    ELSE IF ev.kind = "TransferBatch" THEN LedgerBatch(ledger, ev, 1)
    ELSE ledger

LedgerEventAllowed(ledger, ev) ==
    IF ev.kind = "TransferSingle"
    THEN LedgerAllows(ledger, ev.from, ev.id, ev.value)
    ELSE IF ev.kind = "TransferBatch" THEN LedgerBatchAllows(ledger, ev, 1)
    ELSE TRUE

\* C32: along a valid token history (every plain transfer moves at most the
\* sender's holding), after each event the balance of every account other
\* than the zero address for every token (0 when there is no record) is the
\* account's holding in the reference ledger that applies the same mints and
\* transfers, whether or not the token has a Token record.
C32_LedgerRefinement ==
    (lastEvent.kind # "none" /\ LedgerEventAllowed(LedgerOf(before), lastEvent))
    => LedgerOf(store) = LedgerApply(LedgerOf(before), lastEvent)

\* a holding of token 2, which has no Token record, was minted by a batch and
\* part of it and of a holding of token 1 then moved to another account
C32_Witness ==
    /\ lastEvent.kind = "TransferBatch"
    /\ lastEvent.from # ZERO_ADDRESS
    /\ lastEvent.ids = <<1, 2>>
    /\ ~Has(store.tokens, "2")
    /\ LedgerEventAllowed(LedgerOf(before), lastEvent)
    /\ LedgerOf(before)[<<lastEvent.from, 2>>] >= 1
    /\ LedgerOf(store)[<<lastEvent.to, 2>>] >= 1
    /\ LedgerOf(store)[<<lastEvent.to, 1>>] >= 2

\* ------------------------------------------------------------------------
\* Further invariants of users and global counters (Spec)
\* ------------------------------------------------------------------------
RECURSIVE BalanceSum(_, _, _)
BalanceSum(s, u, tokenIds) ==
    IF tokenIds = {} THEN 0
    ELSE LET t == CHOOSE x \in tokenIds : TRUE
         IN LoadedBalance(s, u, t) + BalanceSum(s, u, tokenIds \ {t})

\* C33: after any sequence of events, every User's totalInventoryValue is
\* the sum over all tokens of the user's UserTokenBalance.balance, a token
\* without a record counting as 0.
C33_InventoryValue ==
    \A u \in DOMAIN store.users :
        store.users[u].totalInventoryValue = BalanceSum(store, u, TokenIds)

\* a user holds two tokens and has given part of a holding away
C33_Witness ==
    /\ lastEvent.kind \in {"TransferSingle", "TransferBatch"}
    /\ lastEvent.from # ZERO_ADDRESS
    /\ lastEvent.from # lastEvent.to
    /\ Has(store.users, lastEvent.from)
    /\ LoadedBalance(store, lastEvent.from, 1) >= 1
    /\ LoadedBalance(store, lastEvent.from, 2) >= 1
    /\ store.users[lastEvent.from].totalInventoryValue >= 2
    /\ store.users[lastEvent.from].totalInventoryValue
         < before.users[lastEvent.from].totalInventoryValue

TotalUsers(s) == IF Has(s.globalStats, "1") THEN s.globalStats["1"].totalUsers ELSE 0

\* C34: after any sequence of events GlobalStats.totalUsers is the number of
\* User records, and no User record is ever removed.
C34_TotalUsers ==
    /\ TotalUsers(store) = Cardinality(DOMAIN store.users)
    /\ DOMAIN before.users \subseteq DOMAIN store.users

\* three users are known, the last of them created by an event that found
\* the other two
C34_Witness ==
    /\ Cardinality(DOMAIN store.users) = 3
    /\ Cardinality(DOMAIN before.users) = 2
    /\ TotalUsers(store) = 3

TotalTokens(s) == IF Has(s.globalStats, "1") THEN s.globalStats["1"].totalTokens ELSE 0

\* C35: after any sequence of events, repeated deliveries of a TokenCreated
\* for one token id included, GlobalStats.totalTokens is the number of Token
\* records.
C35_TotalTokens == TotalTokens(store) = Cardinality(DOMAIN store.tokens)

LastUpdated(s) == IF Has(s.globalStats, "1") THEN s.globalStats["1"].lastUpdated ELSE 0

\* C36: with events applied in non-decreasing timestamp order,
\* GlobalStats.lastUpdated never decreases, and after every event that
\* changes GlobalStats it is that event's block timestamp.
C36_LastUpdated ==
    lastEvent.kind # "none"
    => /\ LastUpdated(store) >= LastUpdated(before)
       /\ store.globalStats # before.globalStats
            => LastUpdated(store) = lastEvent.timestamp

RECURSIVE InventorySum(_, _, _)
InventorySum(s, u, tokenIds) ==
    IF tokenIds = {} THEN 0
    ELSE LET t == CHOOSE x \in tokenIds : TRUE
             id == u \o "-" \o ToString(t)
         IN (IF Has(s.userInventoryItems, id) THEN s.userInventoryItems[id].balance
             ELSE 0)
              + InventorySum(s, u, tokenIds \ {t})

IsPlainEvent(ev) ==
    ev.kind \in {"TransferSingle", "TransferBatch"} /\ ~IsMint(ev.from)

\* C37: after any sequence of events every User's totalTokensMinted is the
\* sum over all tokens of the user's UserInventoryItem.balance; a plain
\* transfer changes neither; a UserInventoryItem is never deleted and its
\* firstAcquired never changes.
C37_MintedInventory ==
    /\ \A u \in DOMAIN store.users :
         store.users[u].totalTokensMinted = InventorySum(store, u, TokenIds)
    /\ \A id \in DOMAIN store.userInventoryItems :
         Has(store.users, store.userInventoryItems[id].user)
    /\ IsPlainEvent(lastEvent) =>
         /\ store.userInventoryItems = before.userInventoryItems
         /\ \A u \in DOMAIN before.users :
              store.users[u].totalTokensMinted = before.users[u].totalTokensMinted
    /\ \A id \in DOMAIN before.userInventoryItems :
         /\ Has(store.userInventoryItems, id)
         /\ store.userInventoryItems[id].firstAcquired
              = before.userInventoryItems[id].firstAcquired

\* a user was minted the same token by two events of different timestamps
\* and has given some of it away in between or afterwards
C37_Witness ==
    \E id \in DOMAIN store.userInventoryItems :
        LET item == store.userInventoryItems[id]
        IN /\ item.balance >= 2
           /\ item.firstAcquired < item.lastAcquired
           /\ store.users[item.user].totalTokensMinted = item.balance
           /\ LoadedBalance(store, item.user, 1) < item.balance
           /\ item.token = "1"

\* ------------------------------------------------------------------------
\* Termination of the chunked backfill
\* ------------------------------------------------------------------------
\* Every awaited call of the loop settles: queryFilter resolves or rejects,
\* and the delays of lines 141 and 153 are timers that fire.
SpecFetchFair == SpecFetch /\ WF_vars(NextFetch)

\* C38: for any finite block range and any pattern of query failures, every
\* query failing on every provider included, getEventsWithRetryInChunks
\* eventually returns: every step either moves the range cursor forward or
\* is one more attempt for the same sub-range, of which there are at most 3.
C38_Terminates ==
    /\ [][\/ /\ currentFromBlock' > currentFromBlock
             /\ retries < maxRetries
          \/ /\ currentFromBlock' = currentFromBlock
             /\ retries' = retries + 1
             /\ retries' < maxRetries]_fetchVars
    /\ <>(pcFetch = "done")

\* the backfill has returned although every query of every sub-range failed
\* on every provider
C38_Witness ==
    /\ pcFetch = "done"
    /\ fetched = <<>>
    /\ Len(queries) >= 2 * maxRetries
    /\ \A i \in DOMAIN queries : ~queries[i].ok
    /\ \A p \in 0..(NumProviders - 1) :
         \E i \in DOMAIN queries : queries[i].provider = p

\* ------------------------------------------------------------------------
\* Statistics at the end of a pass (SpecServer)
\* ------------------------------------------------------------------------
\* a fetchRealData call has ended and none is running
PassesEnded ==
    /\ \E p \in 1..MaxPasses : passes[p].pc = "done"
    /\ \A p \in 1..MaxPasses : ~Active(p)

\* C39: at the end of every fetchRealData pass, whether it ran to completion
\* or stopped on an error or a failed precondition, globalStats.totalTokens
\* is the number of entries of tokens, totalUsers that of users and
\* totalEvents that of allEvents.
C39_StatsMatchCollections ==
    PassesEnded
    => /\ realData.globalStats.totalTokens = Len(realData.tokens)
       /\ realData.globalStats.totalUsers = Len(realData.users)
       /\ realData.globalStats.totalEvents = Len(realData.allEvents)

\* ------------------------------------------------------------------------
\* The two retrievals of one metadata call (SpecMeta)
\* ------------------------------------------------------------------------
\* what the call stores when both of its retrievals are answered by r
FromOneOutcome(r) ==
    fetchAndParseMetadata(before, metaCall.tokenId, metaCall.tokenURI, r, r).s

\* C40: the TokenMetadata and TokenProperties that one fetchAndParseMetadata
\* call produces are derived from a single retrieval outcome, also when the
\* source answers its two requests differently: defaults for name,
\* description and image never stand next to a forgeId or rewardId taken
\* from a retrieved payload.
C40_SingleOutcome ==
    (metaCall.pc = "returned" /\ MetaFetches)
    => \E r \in {metaCall.r1, metaCall.r2} :
          /\ store.tokenMetadata = FromOneOutcome(r).tokenMetadata
          /\ store.tokenProperties = FromOneOutcome(r).tokenProperties
====
